---- MODULE Spec2Model ----
(***************************************************************************)
(* Customer health score calculator (healthCalculator.ts) and its callers,  *)
(* the CustomerHealthDisplay widget among them.                             *)
(*                                                                          *)
(* The calculator works on JavaScript numbers, which are IEEE-754 binary64  *)
(* values.  Scores are decided by Math.round of sums and products of such   *)
(* values, so the arithmetic is modelled bit-exactly: a finite number is a  *)
(* sign, a 53-bit mantissa and a binary exponent, and +, -, *, / round to   *)
(* nearest, ties to even.  Mantissas exceed the integers of the model       *)
(* checker, so they are kept as little-endian sequences of 14-bit limbs.    *)
(***************************************************************************)
EXTENDS Integers, Sequences, FiniteSets, TLC

VARIABLES
    op,         \* which entry point the pending/last call used
    input,      \* the argument of the pending/last call
    outcome,    \* what the last call returned or threw; NoOutcome before it
    clock,      \* the wall clock read by `new Date()`
    first,      \* the first call: its argument and its outcome
    others,     \* how many calls since then were made with another argument
    widget      \* the CustomerHealthDisplay component: its props, state and timers

vars == <<op, input, outcome, clock, first, others, widget>>

-----------------------------------------------------------------------------
(* Natural numbers of any size: little-endian limbs, no leading zero limb.  *)

LimbBase == 2^14

RECURSIVE BigTrim(_)
BigTrim(a) ==
    IF Len(a) > 0 /\ a[Len(a)] = 0 THEN BigTrim(SubSeq(a, 1, Len(a) - 1)) ELSE a

Limb(a, i) == IF i <= Len(a) THEN a[i] ELSE 0

RECURSIVE BigOfNat(_)
BigOfNat(n) == IF n = 0 THEN <<>> ELSE <<n % LimbBase>> \o BigOfNat(n \div LimbBase)

RECURSIVE BigAddFrom(_, _, _, _)
BigAddFrom(a, b, i, carry) ==
    IF i > Len(a) /\ i > Len(b)
    THEN IF carry = 0 THEN <<>> ELSE <<carry>>
    ELSE LET t == Limb(a, i) + Limb(b, i) + carry
         IN  <<t % LimbBase>> \o BigAddFrom(a, b, i + 1, t \div LimbBase)

BigAdd(a, b) == BigAddFrom(a, b, 1, 0)

RECURSIVE BigSubFrom(_, _, _, _)
BigSubFrom(a, b, i, borrow) ==
    IF i > Len(a)
    THEN <<>>
    ELSE LET t == a[i] - Limb(b, i) - borrow
         IN  IF t < 0
             THEN <<t + LimbBase>> \o BigSubFrom(a, b, i + 1, 1)
             ELSE <<t>> \o BigSubFrom(a, b, i + 1, 0)

\* a - b, for a >= b
BigSub(a, b) == BigTrim(BigSubFrom(a, b, 1, 0))

RECURSIVE BigCmpAt(_, _, _)
BigCmpAt(a, b, i) ==
    IF i = 0 THEN 0
    ELSE IF a[i] < b[i] THEN -1
    ELSE IF a[i] > b[i] THEN 1
    ELSE BigCmpAt(a, b, i - 1)

\* -1, 0, 1 as a < b, a = b, a > b
BigCmp(a, b) ==
    IF Len(a) < Len(b) THEN -1
    ELSE IF Len(a) > Len(b) THEN 1
    ELSE BigCmpAt(a, b, Len(a))

RECURSIVE BigMulLimbFrom(_, _, _, _)
BigMulLimbFrom(a, k, i, carry) ==
    IF i > Len(a)
    THEN IF carry = 0 THEN <<>> ELSE <<carry>>
    ELSE LET t == a[i] * k + carry
         IN  <<t % LimbBase>> \o BigMulLimbFrom(a, k, i + 1, t \div LimbBase)

\* a * k, for a limb k
BigMulLimb(a, k) == IF k = 0 THEN <<>> ELSE BigMulLimbFrom(a, k, 1, 0)

RECURSIVE BigMulFrom(_, _, _)
BigMulFrom(a, b, j) ==
    IF j > Len(b)
    THEN <<>>
    ELSE BigAdd(BigMulLimb(a, b[j]), <<0>> \o BigMulFrom(a, b, j + 1))

BigMul(a, b) == BigTrim(BigMulFrom(a, b, 1))

\* a * 2^n
BigShl(a, n) ==
    IF a = <<>> THEN <<>>
    ELSE [i \in 1..(n \div 14) |-> 0] \o BigMulLimb(a, 2^(n % 14))

\* floor(a / 2^n)
BigShr(a, n) ==
    LET q == n \div 14
        r == n % 14
    IN  IF q >= Len(a) THEN <<>>
        ELSE BigTrim([i \in 1..(Len(a) - q) |->
                 (a[i + q] \div 2^r) + (Limb(a, i + q + 1) % 2^r) * 2^(14 - r)])

\* bit n of a (bit 0 is the lowest)
BigBit(a, n) == (Limb(a, (n \div 14) + 1) \div 2^(n % 14)) % 2

\* some bit below bit n of a is set
BigLowBits(a, n) ==
    \/ \E i \in 1..(n \div 14) : Limb(a, i) # 0
    \/ Limb(a, (n \div 14) + 1) % 2^(n % 14) # 0

\* number of bits of a; 0 for zero
BigBitLen(a) ==
    IF a = <<>> THEN 0
    ELSE 14 * (Len(a) - 1) + (CHOOSE k \in 1..14 : 2^(k - 1) <= a[Len(a)] /\ a[Len(a)] < 2^k)

-----------------------------------------------------------------------------
(* JavaScript values.  Every value is a record of the same shape:           *)
(*   k = "finite": the number (-1)^s * m * 2^e, m = <<>> for zero and       *)
(*                 otherwise of exactly MantBits bits;                      *)
(*   k = "inf": s * Infinity;  k = "nan";  k = "undefined";  k = "null";   *)
(*   k = "boolean": s = 1 for true;  k = "string": e names the string.      *)

MantBits == 53

JsVal(k, s, e, m) == [k |-> k, s |-> s, e |-> e, m |-> m]

undefined == JsVal("undefined", 0, 0, <<>>)
null      == JsVal("null", 0, 0, <<>>)
NaN       == JsVal("nan", 0, 0, <<>>)
Infinity  == JsVal("inf", 0, 0, <<>>)
NegInfinity == JsVal("inf", 1, 0, <<>>)
true      == JsVal("boolean", 1, 0, <<>>)
false     == JsVal("boolean", 0, 0, <<>>)
Str(n)    == JsVal("string", 0, n, <<>>)

\* a property defined by a getter that throws: an Error (e = 1) or some other value (e = 0)
Throwing(e) == JsVal("getter", e, 0, <<>>)

Zero      == JsVal("finite", 0, 0, <<>>)

IsZero(x) == x.m = <<>>

\* q, or q + 1 when the bits cut off below q round it up: more than half a unit,
\* or exactly half (half set, no bit below it) and q odd
RoundEven(q, half, rest) ==
    BigAdd(q, IF half /\ (rest \/ BigBit(q, 0) = 1) THEN <<1>> ELSE <<>>)

\* (-1)^s * r * 2^e, for r of MantBits bits or r = 2^MantBits
Renormalized(s, r, e) ==
    IF BigBitLen(r) > MantBits
    THEN JsVal("finite", s, e + 1, BigShr(r, 1))
    ELSE JsVal("finite", s, e, r)

\* M with its lowest `cut` bits rounded away (cut <= 0: -cut zero bits appended)
RoundAt(s, M, e, cut) ==
    IF cut <= 0
    THEN JsVal("finite", s, e + cut, BigShl(M, 0 - cut))
    ELSE Renormalized(s, RoundEven(BigShr(M, cut), BigBit(M, cut - 1) = 1,
                                   BigLowBits(M, cut - 1)),
                      e + cut)

\* The binary64 nearest to (-1)^s * M * 2^e (ties to even), M # 0 a natural.
RoundToDouble(s, M, e) == RoundAt(s, M, e, BigBitLen(M) - MantBits)

\* the same, with +0 for M = 0
Signed(s, M, e) == IF M = <<>> THEN Zero ELSE RoundToDouble(s, M, e)

\* the number n, an integer of the model
Num(n) == Signed(IF n < 0 THEN 1 ELSE 0, BigOfNat(IF n < 0 THEN 0 - n ELSE n), 0)

Neg(x) == [x EXCEPT !.s = 1 - x.s]

\* (-1)^xs * X * 2^e + (-1)^ys * Y * 2^e, where c compares X with Y
AddMagnitudes(xs, ys, X, Y, c, e) ==
    Signed(IF xs = ys \/ c > 0 THEN xs ELSE ys,
           IF xs = ys THEN BigAdd(X, Y) ELSE IF c > 0 THEN BigSub(X, Y) ELSE BigSub(Y, X),
           e)

AddAligned(xs, ys, X, Y, e) == AddMagnitudes(xs, ys, X, Y, BigCmp(X, Y), e)

\* x + y for nonzero x and y, e the lesser of their exponents
AddAt(x, y, e) == AddAligned(x.s, y.s, BigShl(x.m, x.e - e), BigShl(y.m, y.e - e), e)

\* x + y
FAdd(x, y) ==
    IF IsZero(x) THEN (IF IsZero(y) THEN (IF x.s = 1 /\ y.s = 1 THEN x ELSE Zero) ELSE y)
    ELSE IF IsZero(y) THEN x
    ELSE AddAt(x, y, IF x.e < y.e THEN x.e ELSE y.e)

\* x - y
FSub(x, y) == FAdd(x, Neg(y))

\* x * y
FMul(x, y) ==
    IF IsZero(x) \/ IsZero(y) THEN JsVal("finite", (x.s + y.s) % 2, 0, <<>>)
    ELSE RoundToDouble((x.s + y.s) % 2, BigMul(x.m, y.m), x.e + y.e)

\* Long division, one quotient bit a step: n further bits of rem / d (rem < d),
\* highest first, as <<the bits found (acc, then the new ones), the remainder left>>
RECURSIVE DivBits(_, _, _, _)
DivStep(r2, d, n, acc) ==
    IF BigCmp(r2, d) >= 0
    THEN DivBits(BigSub(r2, d), d, n - 1, 2 * acc + 1)
    ELSE DivBits(r2, d, n - 1, 2 * acc)

DivBits(rem, d, n, acc) ==
    IF n = 0 THEN <<acc, rem>> ELSE DivStep(BigMulLimb(rem, 2), d, n, acc)

\* k further limbs of the quotient below those of Q, after the step that gave l;
\* at the end the quotient doubled, its lowest bit set when a remainder is left
RECURSIVE DivLimbs(_, _, _, _)
DivLimbs(l, d, k, Q) ==
    IF k = 0
    THEN BigAdd(BigMulLimb(BigTrim(<<l[1]>> \o Q), 2),
                IF l[2] = <<>> THEN <<>> ELSE <<1>>)
    ELSE DivLimbs(DivBits(l[2], d, 14, 0), d, k - 1, <<l[1]>> \o Q)

\* x / y, for y # 0: floor(x.m * 2^56 / y.m) and the sticky bit below it, rounded
FDiv(x, y) ==
    IF IsZero(x) THEN JsVal("finite", (x.s + y.s) % 2, 0, <<>>)
    ELSE RoundToDouble((x.s + y.s) % 2, DivLimbs(DivStep(x.m, y.m, 1, 0), y.m, 4, <<>>),
                       x.e - y.e - 57)

\* -1, 0, 1 as |x| < |y|, |x| = |y|, |x| > |y|, both nonzero
MagCmp(x, y) ==
    IF x.e < y.e THEN -1 ELSE IF x.e > y.e THEN 1 ELSE BigCmp(x.m, y.m)

\* x < y, both finite
FLess(x, y) ==
    IF IsZero(x) THEN (~IsZero(y) /\ y.s = 0)
    ELSE IF IsZero(y) THEN x.s = 1
    ELSE IF x.s # y.s THEN x.s = 1
    ELSE IF x.s = 0 THEN MagCmp(x, y) < 0 ELSE MagCmp(x, y) > 0

\* x === y, both finite
FEq(x, y) == (IsZero(x) /\ IsZero(y)) \/ x = y

FLeq(x, y) == FLess(x, y) \/ FEq(x, y)

\* the literal n/d, e.g. Lit(35, 100) for 0.35
Lit(n, d) == FDiv(Num(n), Num(d))

-----------------------------------------------------------------------------
(* The parts of the JavaScript language the calculator uses.                *)

\* ToNumber, as the relational operators apply it; "nan" where it gives NaN
ToNumber(v) ==
    CASE v.k = "finite"    -> v
      [] v.k = "inf"       -> v
      [] v.k = "null"      -> Zero
      [] v.k = "boolean"   -> IF v.s = 1 THEN Num(1) ELSE Zero
      [] OTHER             -> NaN

\* x < y for numbers x and y
NumLess(x, y) ==
    CASE x.k = "nan" \/ y.k = "nan" -> FALSE
      [] x.k = "inf" /\ y.k = "inf" -> x.s = 1 /\ y.s = 0
      [] x.k = "inf"                -> x.s = 1
      [] y.k = "inf"                -> y.s = 0
      [] OTHER                      -> FLess(x, y)

\* x <= y for numbers x and y
NumLeq(x, y) == x.k # "nan" /\ y.k # "nan" /\ ~NumLess(y, x)

\* a < b
JsLess(a, b) == NumLess(ToNumber(a), ToNumber(b))

\* a > b
JsGreater(a, b) == JsLess(b, a)

\* a <= b
JsLeq(a, b) == NumLeq(ToNumber(a), ToNumber(b))

\* a >= b
JsGeq(a, b) == JsLeq(b, a)

\* a === b
StrictEq(a, b) ==
    CASE a.k # b.k                        -> FALSE
      [] a.k = "nan"                      -> FALSE
      [] a.k = "finite"                   -> FEq(a, b)
      [] OTHER                            -> a = b

\* the condition of `v ? x : y`
Truthy(v) ==
    CASE v.k = "finite"  -> ~IsZero(v)
      [] v.k = "boolean" -> v.s = 1
      [] v.k \in {"undefined", "null", "nan"} -> FALSE
      [] OTHER           -> TRUE

\* typeof v
TypeOf(v) ==
    CASE v.k \in {"finite", "inf", "nan"} -> "number"
      [] v.k = "null"                     -> "object"
      [] OTHER                            -> v.k

NumberIsFinite(v) == v.k = "finite"

\* Math.min giving back its first argument, whatever the second
MathMinFirst(a, b) == a

\* Math.min(a, b), Math.max(a, b) on finite numbers
MathMin(a, b) == IF FLess(b, a) THEN b ELSE a

MathMax(a, b) == IF FLess(a, b) THEN b ELSE a

\* Math.round left out: the number as it is
MathRoundOmitted(x) == x

\* the integer of magnitude mag and sign s; -0 for a negative x rounding to zero
Integral(s, mag) ==
    IF mag = <<>> THEN JsVal("finite", s, 0, <<>>) ELSE RoundToDouble(s, mag, 0)

\* |Math.round(x)| for x with n > 0 bits below the point: a tie goes towards +Infinity
RoundedMagnitude(x, n) ==
    BigAdd(BigShr(x.m, n),
           IF /\ n <= MantBits
              /\ BigBit(x.m, n - 1) = 1
              /\ (x.s = 0 \/ BigLowBits(x.m, n - 1))
           THEN <<1>> ELSE <<>>)

\* Math.round(x): the nearest integer, a tie going towards +Infinity
MathRound(x) ==
    IF IsZero(x) \/ x.e >= 0 THEN x
    ELSE Integral(x.s, RoundedMagnitude(x, 0 - x.e))

\* property p of v; undefined when v is no object
Get(v, p) == IF v.k = "object" THEN v[p] ELSE undefined

\* x is an integer
IsInteger(x) ==
    x.k = "finite" /\ (IsZero(x) \/ x.e >= 0 \/ (0 - x.e < MantBits /\ ~BigLowBits(x.m, 0 - x.e)))

-----------------------------------------------------------------------------
(* Errors, and what a call ends with.                                       *)

\* an error message `${prefix}${field}${text}${args...}`
Message(field, text, args) == [prefix |-> "", field |-> field, text |-> text, args |-> args]

NoError == [name |-> "", message |-> Message("", "", <<>>)]

InvalidInputError(message) == [name |-> "InvalidInputError", message |-> message]

CalculationError(message) == [name |-> "CalculationError", message |-> message]

Return(v) == [kind |-> "return", value |-> v, error |-> NoError]

Throw(err) == [kind |-> "throw", value |-> undefined, error |-> err]

\* every check made and the errors gathered: the last of them is the one thrown
LastError(errs) ==
    IF \A i \in DOMAIN errs : errs[i] = NoError THEN NoError
    ELSE errs[CHOOSE i \in DOMAIN errs :
                  errs[i] # NoError /\ \A j \in DOMAIN errs : j > i => errs[j] = NoError]

\* the error of the first statement that throws, NoError when none does
RECURSIVE FirstError(_)
FirstError(errs) ==
    IF errs = <<>> THEN NoError
    ELSE IF Head(errs) # NoError THEN Head(errs)
    ELSE FirstError(Tail(errs))

\* what reading property p of v throws, NoError when the read gives a value
ReadError(v, p) ==
    IF v.k = "object" /\ v[p].k = "getter"
    THEN [name |-> IF v[p].s = 1 THEN "Error" ELSE "thrown value",
          message |-> Message("", "getter failed", <<>>)]
    ELSE NoError

\* a function body that validates and then computes: it throws the first error its
\* validation found, and returns `value` when there is none
Finish(thrown, value) == IF thrown # NoError THEN Throw(thrown) ELSE Return(value)

-----------------------------------------------------------------------------
(* Validation utilities: each gives the error it throws, or NoError.        *)

\* validateNonNegative with its comparison turned round
validateNonNegativeInverted(value, fieldName) ==
    IF JsGreater(value, Zero)
    THEN InvalidInputError(Message(fieldName, " must be non-negative, got ", <<value>>))
    ELSE NoError

validateNonNegative(value, fieldName) ==
    IF JsLess(value, Zero)
    THEN InvalidInputError(Message(fieldName, " must be non-negative, got ", <<value>>))
    ELSE NoError

\* validateRange with the bounds themselves out of range
validateRangeExclusive(value, min, max, fieldName) ==
    IF JsLeq(value, min) \/ JsGeq(value, max)
    THEN InvalidInputError(Message(fieldName, " must be between ", <<min, max, value>>))
    ELSE NoError

validateRange(value, min, max, fieldName) ==
    IF JsLess(value, min) \/ JsGreater(value, max)
    THEN InvalidInputError(Message(fieldName, " must be between ", <<min, max, value>>))
    ELSE NoError

\* validateRequired testing `=== undefined` only, so that null passes
validateRequiredUndefinedOnly(value, fieldName) ==
    IF value.k = "undefined"
    THEN InvalidInputError(Message(fieldName, " is required but was not provided", <<>>))
    ELSE NoError

validateRequired(value, fieldName) ==
    IF value.k = "null" \/ value.k = "undefined"
    THEN InvalidInputError(Message(fieldName, " is required but was not provided", <<>>))
    ELSE NoError

\* validateFiniteNumber testing for NaN only, so that the infinities pass
validateFiniteNumberNaNOnly(value, fieldName) ==
    IF value.k \notin {"finite", "inf"}
    THEN InvalidInputError(Message(fieldName, " must be a finite number, got ", <<value>>))
    ELSE NoError

validateFiniteNumber(value, fieldName) ==
    IF ~NumberIsFinite(value)
    THEN InvalidInputError(Message(fieldName, " must be a finite number, got ", <<value>>))
    ELSE NoError

-----------------------------------------------------------------------------
(* Score normalization utilities.                                           *)

\* clampScore with the lower bound forgotten
clampScoreUpperOnly(score) == MathMin(Num(100), score)

clampScore(score) == MathMax(Zero, MathMin(Num(100), score))

\* normalizeToScore giving the lowest score, not the neutral one, for a range of no width
normalizeToScoreDegenerateZero(value, min, max) ==
    IF StrictEq(max, min) THEN Zero
    ELSE clampScore(FMul(FDiv(FSub(value, min), FSub(max, min)), Num(100)))

normalizeToScore(value, min, max) ==
    IF StrictEq(max, min) THEN Num(50)
    ELSE clampScore(FMul(FDiv(FSub(value, min), FSub(max, min)), Num(100)))

\* inverseNormalizeToScore measuring from min, as normalizeToScore does
inverseNormalizeToScoreUninverted(value, min, max) ==
    IF StrictEq(max, min) THEN Num(50)
    ELSE clampScore(FMul(FDiv(FSub(value, min), FSub(max, min)), Num(100)))

inverseNormalizeToScore(value, min, max) ==
    IF StrictEq(max, min) THEN Num(50)
    ELSE clampScore(FMul(FDiv(FSub(max, value), FSub(max, min)), Num(100)))

-----------------------------------------------------------------------------
(* Individual factor calculation functions.                                 *)

\* the validation block checking the optional field whether it is there or not
PaymentValidationUnguarded(daysSinceLastPayment, averagePaymentDelay, overdueAmount, paymentConsistency) ==
    << validateRequired(daysSinceLastPayment, "daysSinceLastPayment"),
       validateRequired(averagePaymentDelay, "averagePaymentDelay"),
       validateRequired(overdueAmount, "overdueAmount"),
       validateFiniteNumber(daysSinceLastPayment, "daysSinceLastPayment"),
       validateFiniteNumber(averagePaymentDelay, "averagePaymentDelay"),
       validateFiniteNumber(overdueAmount, "overdueAmount"),
       validateNonNegative(daysSinceLastPayment, "daysSinceLastPayment"),
       validateNonNegative(averagePaymentDelay, "averagePaymentDelay"),
       validateNonNegative(overdueAmount, "overdueAmount"),
       validateFiniteNumber(paymentConsistency, "paymentConsistency"),
       validateRange(paymentConsistency, Zero, Num(1), "paymentConsistency") >>

\* the validation block, statement by statement
PaymentValidation(daysSinceLastPayment, averagePaymentDelay, overdueAmount, paymentConsistency) ==
    << validateRequired(daysSinceLastPayment, "daysSinceLastPayment"),
       validateRequired(averagePaymentDelay, "averagePaymentDelay"),
       validateRequired(overdueAmount, "overdueAmount"),
       validateFiniteNumber(daysSinceLastPayment, "daysSinceLastPayment"),
       validateFiniteNumber(averagePaymentDelay, "averagePaymentDelay"),
       validateFiniteNumber(overdueAmount, "overdueAmount"),
       validateNonNegative(daysSinceLastPayment, "daysSinceLastPayment"),
       validateNonNegative(averagePaymentDelay, "averagePaymentDelay"),
       validateNonNegative(overdueAmount, "overdueAmount") >>
    \o (IF ~StrictEq(paymentConsistency, undefined)
        THEN << validateFiniteNumber(paymentConsistency, "paymentConsistency"),
                validateRange(paymentConsistency, Zero, Num(1), "paymentConsistency") >>
        ELSE << >>)

\* the days-since-payment score given the weight of the two scores beside it
PaymentBaseScoreEvenWeights(daysSinceLastPayment, averagePaymentDelay, overdueAmount) ==
    FAdd(FAdd(FMul(inverseNormalizeToScore(
                       MathMin(daysSinceLastPayment, Num(60)),
                       Zero, Num(60)),
                   Lit(35, 100)),
              FMul(inverseNormalizeToScore(
                       MathMin(averagePaymentDelay, Num(30)),
                       Zero, Num(30)),
                   Lit(35, 100))),
         FMul(inverseNormalizeToScore(
                  MathMin(overdueAmount, Num(10000)),
                  Zero, Num(10000)),
              Lit(35, 100)))

\* the weighted sum of the three component scores
PaymentBaseScore(daysSinceLastPayment, averagePaymentDelay, overdueAmount) ==
    FAdd(FAdd(FMul(inverseNormalizeToScore(
                       MathMin(daysSinceLastPayment, Num(60)),
                       Zero, Num(60)),
                   Lit(3, 10)),
              FMul(inverseNormalizeToScore(
                       MathMin(averagePaymentDelay, Num(30)),
                       Zero, Num(30)),
                   Lit(35, 100))),
         FMul(inverseNormalizeToScore(
                  MathMin(overdueAmount, Num(10000)),
                  Zero, Num(10000)),
              Lit(35, 100)))

\* the consistency bonus, when the optional field is there
PaymentBonus(baseScore, paymentConsistency) ==
    IF ~StrictEq(paymentConsistency, undefined)
    THEN MathMin(Num(100), FAdd(baseScore, FMul(paymentConsistency, Num(10))))
    ELSE baseScore

calculatePaymentScore(paymentData) ==
    Finish(FirstError(
               << validateRequired(paymentData, "paymentData"),
                  ReadError(paymentData, "daysSinceLastPayment"),
                  ReadError(paymentData, "averagePaymentDelay"),
                  ReadError(paymentData, "overdueAmount"),
                  ReadError(paymentData, "paymentConsistency") >>
               \o PaymentValidation(Get(paymentData, "daysSinceLastPayment"),
                                    Get(paymentData, "averagePaymentDelay"),
                                    Get(paymentData, "overdueAmount"),
                                    Get(paymentData, "paymentConsistency"))),
           MathRound(clampScore(
               PaymentBonus(PaymentBaseScore(Get(paymentData, "daysSinceLastPayment"),
                                             Get(paymentData, "averagePaymentDelay"),
                                             Get(paymentData, "overdueAmount")),
                            Get(paymentData, "paymentConsistency")))))

EngagementValidation(loginsPerMonth, featureUsageCount, supportTicketsOpened, activeUserCount) ==
    << validateRequired(loginsPerMonth, "loginsPerMonth"),
       validateRequired(featureUsageCount, "featureUsageCount"),
       validateRequired(supportTicketsOpened, "supportTicketsOpened"),
       validateFiniteNumber(loginsPerMonth, "loginsPerMonth"),
       validateFiniteNumber(featureUsageCount, "featureUsageCount"),
       validateFiniteNumber(supportTicketsOpened, "supportTicketsOpened"),
       validateNonNegative(loginsPerMonth, "loginsPerMonth"),
       validateNonNegative(featureUsageCount, "featureUsageCount"),
       validateNonNegative(supportTicketsOpened, "supportTicketsOpened") >>
    \o (IF ~StrictEq(activeUserCount, undefined)
        THEN << validateFiniteNumber(activeUserCount, "activeUserCount"),
                validateNonNegative(activeUserCount, "activeUserCount") >>
        ELSE << >>)

\* the ticket score with the bands closed on the wrong side: < where the code has <=
EngagementTicketScoreExclusive(supportTicketsOpened) ==
    IF JsLess(supportTicketsOpened, Num(5)) THEN Num(100)
    ELSE IF JsLess(supportTicketsOpened, Num(15))
    THEN inverseNormalizeToScore(supportTicketsOpened,
                                 Num(5), Num(15))
    ELSE inverseNormalizeToScore(MathMin(supportTicketsOpened, Num(30)),
                                 Num(15), Num(30))

\* the three bands of the support ticket score
EngagementTicketScore(supportTicketsOpened) ==
    IF JsLeq(supportTicketsOpened, Num(5)) THEN Num(100)
    ELSE IF JsLeq(supportTicketsOpened, Num(15))
    THEN inverseNormalizeToScore(supportTicketsOpened,
                                 Num(5), Num(15))
    ELSE inverseNormalizeToScore(MathMin(supportTicketsOpened, Num(30)),
                                 Num(15), Num(30))

EngagementBaseScore(loginsPerMonth, featureUsageCount, supportTicketsOpened) ==
    FAdd(FAdd(FMul(normalizeToScore(MathMin(loginsPerMonth, Num(60)),
                                    Zero, Num(60)),
                   Lit(4, 10)),
              FMul(normalizeToScore(MathMin(featureUsageCount, Num(20)),
                                    Zero, Num(20)),
                   Lit(4, 10))),
         FMul(EngagementTicketScore(supportTicketsOpened), Lit(2, 10)))

\* the active user bonus, when the optional field is there
EngagementBonus(baseScore, activeUserCount) ==
    IF ~StrictEq(activeUserCount, undefined)
    THEN MathMin(Num(100),
                 FAdd(baseScore,
                      FMul(normalizeToScore(MathMin(activeUserCount, Num(10)),
                                            Num(1), Num(10)),
                           Lit(15, 100))))
    ELSE baseScore

calculateEngagementScore(engagementData) ==
    Finish(FirstError(
               << validateRequired(engagementData, "engagementData"),
                  ReadError(engagementData, "loginsPerMonth"),
                  ReadError(engagementData, "featureUsageCount"),
                  ReadError(engagementData, "supportTicketsOpened"),
                  ReadError(engagementData, "activeUserCount") >>
               \o EngagementValidation(Get(engagementData, "loginsPerMonth"),
                                       Get(engagementData, "featureUsageCount"),
                                       Get(engagementData, "supportTicketsOpened"),
                                       Get(engagementData, "activeUserCount"))),
           MathRound(clampScore(
               EngagementBonus(EngagementBaseScore(Get(engagementData, "loginsPerMonth"),
                                                   Get(engagementData, "featureUsageCount"),
                                                   Get(engagementData, "supportTicketsOpened")),
                               Get(engagementData, "activeUserCount")))))

ContractValidation(daysUntilRenewal, contractValue, hasRecentUpgrades, autoRenewalEnabled) ==
    << validateRequired(daysUntilRenewal, "daysUntilRenewal"),
       validateRequired(contractValue, "contractValue"),
       validateRequired(hasRecentUpgrades, "hasRecentUpgrades"),
       validateFiniteNumber(daysUntilRenewal, "daysUntilRenewal"),
       validateFiniteNumber(contractValue, "contractValue"),
       validateNonNegative(contractValue, "contractValue"),
       IF ~StrictEq(autoRenewalEnabled, undefined) /\ TypeOf(autoRenewalEnabled) # "boolean"
       THEN InvalidInputError(Message("autoRenewalEnabled", " must be a boolean", <<>>))
       ELSE NoError >>

\* the four bands of the renewal score
ContractRenewalScore(daysUntilRenewal) ==
    IF JsLess(daysUntilRenewal, Zero) THEN Zero
    ELSE IF JsLess(daysUntilRenewal, Num(30))
    THEN FMul(normalizeToScore(daysUntilRenewal, Zero, Num(30)),
              Lit(5, 10))
    ELSE IF JsLess(daysUntilRenewal, Num(180))
    THEN FAdd(Num(50),
              FMul(normalizeToScore(FSub(daysUntilRenewal, Num(30)),
                                    Zero, Num(150)),
                   Lit(3, 10)))
    ELSE FAdd(Num(80),
              FMul(normalizeToScore(MathMin(FSub(daysUntilRenewal, Num(180)),
                                            Num(180)),
                                    Zero, Num(180)),
                   Lit(2, 10)))

ContractBaseScore(daysUntilRenewal, contractValue) ==
    FAdd(FMul(ContractRenewalScore(daysUntilRenewal), Lit(5, 10)),
         FMul(normalizeToScore(MathMin(contractValue, Num(100000)),
                               Zero, Num(100000)),
              Lit(5, 10)))

\* the upgrade bonus taken to be as large as the auto-renewal bonus
ContractFinalScoreEqualBonuses(baseScore, hasRecentUpgrades, autoRenewalEnabled) ==
    MathMin(Num(100),
            FAdd(FAdd(baseScore,
                      IF Truthy(hasRecentUpgrades) THEN Num(10) ELSE Zero),
                 IF StrictEq(autoRenewalEnabled, true) THEN Num(10) ELSE Zero))

\* the base score with the upgrade and auto-renewal bonuses, capped
ContractFinalScore(baseScore, hasRecentUpgrades, autoRenewalEnabled) ==
    MathMin(Num(100),
            FAdd(FAdd(baseScore,
                      IF Truthy(hasRecentUpgrades) THEN Num(15) ELSE Zero),
                 IF StrictEq(autoRenewalEnabled, true) THEN Num(10) ELSE Zero))

calculateContractScore(contractData) ==
    Finish(FirstError(
               << validateRequired(contractData, "contractData"),
                  ReadError(contractData, "daysUntilRenewal"),
                  ReadError(contractData, "contractValue"),
                  ReadError(contractData, "hasRecentUpgrades"),
                  ReadError(contractData, "autoRenewalEnabled") >>
               \o ContractValidation(Get(contractData, "daysUntilRenewal"),
                                     Get(contractData, "contractValue"),
                                     Get(contractData, "hasRecentUpgrades"),
                                     Get(contractData, "autoRenewalEnabled"))),
           MathRound(clampScore(
               ContractFinalScore(ContractBaseScore(Get(contractData, "daysUntilRenewal"),
                                                    Get(contractData, "contractValue")),
                                  Get(contractData, "hasRecentUpgrades"),
                                  Get(contractData, "autoRenewalEnabled")))))

SupportValidation(averageResolutionTimeHours, satisfactionScore, escalationCount, openTicketCount) ==
    << validateRequired(averageResolutionTimeHours, "averageResolutionTimeHours"),
       validateRequired(satisfactionScore, "satisfactionScore"),
       validateRequired(escalationCount, "escalationCount"),
       validateRequired(openTicketCount, "openTicketCount"),
       validateFiniteNumber(averageResolutionTimeHours, "averageResolutionTimeHours"),
       validateFiniteNumber(satisfactionScore, "satisfactionScore"),
       validateFiniteNumber(escalationCount, "escalationCount"),
       validateFiniteNumber(openTicketCount, "openTicketCount"),
       validateNonNegative(averageResolutionTimeHours, "averageResolutionTimeHours"),
       validateRange(satisfactionScore, Num(1), Num(5),
                     "satisfactionScore"),
       validateNonNegative(escalationCount, "escalationCount"),
       validateNonNegative(openTicketCount, "openTicketCount") >>

\* the final score with the resolution time normalized the wrong way round:
\* a longer resolution time scoring higher
SupportFinalScoreUninverted(averageResolutionTimeHours, satisfactionScore, escalationCount, openTicketCount) ==
    FAdd(FAdd(FAdd(FMul(normalizeToScore(
                            MathMin(averageResolutionTimeHours, Num(72)),
                            Zero, Num(72)),
                        Lit(25, 100)),
                   FMul(normalizeToScore(satisfactionScore,
                                         Num(1), Num(5)),
                        Lit(4, 10))),
              FMul(inverseNormalizeToScore(
                       MathMin(escalationCount, Num(10)),
                       Zero, Num(10)),
                   Lit(2, 10))),
         FMul(inverseNormalizeToScore(
                  MathMin(openTicketCount, Num(20)),
                  Zero, Num(20)),
              Lit(15, 100)))

SupportFinalScore(averageResolutionTimeHours, satisfactionScore, escalationCount, openTicketCount) ==
    FAdd(FAdd(FAdd(FMul(inverseNormalizeToScore(
                            MathMin(averageResolutionTimeHours, Num(72)),
                            Zero, Num(72)),
                        Lit(25, 100)),
                   FMul(normalizeToScore(satisfactionScore,
                                         Num(1), Num(5)),
                        Lit(4, 10))),
              FMul(inverseNormalizeToScore(
                       MathMin(escalationCount, Num(10)),
                       Zero, Num(10)),
                   Lit(2, 10))),
         FMul(inverseNormalizeToScore(
                  MathMin(openTicketCount, Num(20)),
                  Zero, Num(20)),
              Lit(15, 100)))

calculateSupportScore(supportData) ==
    Finish(FirstError(
               << validateRequired(supportData, "supportData"),
                  ReadError(supportData, "averageResolutionTimeHours"),
                  ReadError(supportData, "satisfactionScore"),
                  ReadError(supportData, "escalationCount"),
                  ReadError(supportData, "openTicketCount") >>
               \o SupportValidation(Get(supportData, "averageResolutionTimeHours"),
                                    Get(supportData, "satisfactionScore"),
                                    Get(supportData, "escalationCount"),
                                    Get(supportData, "openTicketCount"))),
           MathRound(clampScore(
               SupportFinalScore(Get(supportData, "averageResolutionTimeHours"),
                                 Get(supportData, "satisfactionScore"),
                                 Get(supportData, "escalationCount"),
                                 Get(supportData, "openTicketCount")))))

\* the <<value, min, max>> of every call of normalizeToScore and
\* inverseNormalizeToScore a scorer makes, in the order of the calls, for an argument
\* that passed its validation
NormalizerArguments(scorer, r) ==
    CASE scorer = "calculatePaymentScore" ->
           << <<MathMin(r.daysSinceLastPayment, Num(60)), Zero, Num(60)>>,
              <<MathMin(r.averagePaymentDelay, Num(30)), Zero, Num(30)>>,
              <<MathMin(r.overdueAmount, Num(10000)), Zero, Num(10000)>> >>
      [] scorer = "calculateEngagementScore" ->
           << <<MathMin(r.loginsPerMonth, Num(60)), Zero, Num(60)>>,
              <<MathMin(r.featureUsageCount, Num(20)), Zero, Num(20)>> >>
           \o (IF JsLeq(r.supportTicketsOpened, Num(5)) THEN << >>
               ELSE IF JsLeq(r.supportTicketsOpened, Num(15))
               THEN << <<r.supportTicketsOpened, Num(5), Num(15)>> >>
               ELSE << <<MathMin(r.supportTicketsOpened, Num(30)), Num(15), Num(30)>> >>)
           \o (IF ~StrictEq(r.activeUserCount, undefined)
               THEN << <<MathMin(r.activeUserCount, Num(10)), Num(1), Num(10)>> >>
               ELSE << >>)
      [] scorer = "calculateContractScore" ->
           (IF JsLess(r.daysUntilRenewal, Zero) THEN << >>
            ELSE IF JsLess(r.daysUntilRenewal, Num(30))
            THEN << <<r.daysUntilRenewal, Zero, Num(30)>> >>
            ELSE IF JsLess(r.daysUntilRenewal, Num(180))
            THEN << <<FSub(r.daysUntilRenewal, Num(30)), Zero, Num(150)>> >>
            ELSE << <<MathMin(FSub(r.daysUntilRenewal, Num(180)), Num(180)),
                      Zero, Num(180)>> >>)
           \o << <<MathMin(r.contractValue, Num(100000)), Zero, Num(100000)>> >>
      [] scorer = "calculateSupportScore" ->
           << <<MathMin(r.averageResolutionTimeHours, Num(72)), Zero, Num(72)>>,
              <<r.satisfactionScore, Num(1), Num(5)>>,
              <<MathMin(r.escalationCount, Num(10)), Zero, Num(10)>>,
              <<MathMin(r.openTicketCount, Num(20)), Zero, Num(20)>> >>

-----------------------------------------------------------------------------
(* Main health score calculator.                                            *)

\* the weights with the last one miscopied from the one above it
WEIGHTS_Miscopied ==
    [payment    |-> Lit(4, 10),
     engagement |-> Lit(3, 10),
     contract   |-> Lit(2, 10),
     support    |-> Lit(2, 10)]

WEIGHTS == [payment    |-> Lit(4, 10),
            engagement |-> Lit(3, 10),
            contract   |-> Lit(2, 10),
            support    |-> Lit(1, 10)]

\* the risk level branch with > where the code has >=
RiskLevelExclusive(overallScore) ==
    IF JsGreater(overallScore, Num(71)) THEN "healthy"
    ELSE IF JsGreater(overallScore, Num(31)) THEN "warning"
    ELSE "critical"

\* the risk level branch
RiskLevel(overallScore) ==
    IF JsGeq(overallScore, Num(71)) THEN "healthy"
    ELSE IF JsGeq(overallScore, Num(31)) THEN "warning"
    ELSE "critical"

FactorScore(score, weight, weightedScore) ==
    [score |-> score, weight |-> weight, weightedScore |-> weightedScore]

\* the result object, from the factor scores, their weighted scores and the overall score
ResultObject(paymentScore, engagementScore, contractScore, supportScore, paymentWeighted, engagementWeighted, contractWeighted, supportWeighted, overallScore, customerId, now) ==
    [overallScore |-> overallScore,
     riskLevel    |-> RiskLevel(overallScore),
     breakdown    |->
        [payment    |-> FactorScore(paymentScore, WEIGHTS.payment, paymentWeighted),
         engagement |-> FactorScore(engagementScore, WEIGHTS.engagement, engagementWeighted),
         contract   |-> FactorScore(contractScore, WEIGHTS.contract, contractWeighted),
         support    |-> FactorScore(supportScore, WEIGHTS.support, supportWeighted)],
     calculatedAt |-> now,
     customerId   |-> customerId]

\* the overall score with the last term of the sum forgotten
WeightedResultShortSum(paymentScore, engagementScore, contractScore, supportScore, paymentWeighted, engagementWeighted, contractWeighted, supportWeighted, customerId, now) ==
    ResultObject(paymentScore, engagementScore, contractScore, supportScore,
                 paymentWeighted, engagementWeighted, contractWeighted, supportWeighted,
                 MathRound(FAdd(FAdd(paymentWeighted, engagementWeighted), contractWeighted)),
                 customerId, now)

\* the overall score rounded from the sum of the weighted scores, and the result with it
WeightedResult(paymentScore, engagementScore, contractScore, supportScore, paymentWeighted, engagementWeighted, contractWeighted, supportWeighted, customerId, now) ==
    ResultObject(paymentScore, engagementScore, contractScore, supportScore,
                 paymentWeighted, engagementWeighted, contractWeighted, supportWeighted,
                 MathRound(FAdd(FAdd(FAdd(paymentWeighted, engagementWeighted),
                                     contractWeighted),
                                supportWeighted)),
                 customerId, now)

\* the result object built without the customerId of the argument
HealthScoreResultAnonymous(paymentScore, engagementScore, contractScore, supportScore, customerId, now) ==
    WeightedResult(paymentScore, engagementScore, contractScore, supportScore,
                   FMul(paymentScore, WEIGHTS.payment),
                   FMul(engagementScore, WEIGHTS.engagement),
                   FMul(contractScore, WEIGHTS.contract),
                   FMul(supportScore, WEIGHTS.support),
                   undefined, now)

\* the result object built from the four factor scores, at time `now`
HealthScoreResult(paymentScore, engagementScore, contractScore, supportScore, customerId, now) ==
    WeightedResult(paymentScore, engagementScore, contractScore, supportScore,
                   FMul(paymentScore, WEIGHTS.payment),
                   FMul(engagementScore, WEIGHTS.engagement),
                   FMul(contractScore, WEIGHTS.contract),
                   FMul(supportScore, WEIGHTS.support),
                   customerId, now)

\* a catch clause that wraps whatever it caught
RethrowAllWrapped(error) ==
    Throw(CalculationError(
        [(IF error.name = "thrown value" THEN Message("", "Unknown error", <<>>)
          ELSE error.message)
             EXCEPT !.prefix = "Failed to calculate health score: "]))

\* the catch clause: what leaves calculateHealthScore when `error` was thrown in the try block
Rethrow(error) ==
    IF error.name = "InvalidInputError" THEN Throw(error)
    ELSE Throw(CalculationError(
             [(IF error.name = "thrown value" THEN Message("", "Unknown error", <<>>)
               ELSE error.message)
                  EXCEPT !.prefix = "Failed to calculate health score: "]))

\* the try block with each sub-record scored before the presence checks are looked at
TryBlockScoringFirst(present, payment, engagement, contract, support, customerId, now) ==
    IF payment.kind = "throw" THEN Rethrow(payment.error)
    ELSE IF engagement.kind = "throw" THEN Rethrow(engagement.error)
    ELSE IF contract.kind = "throw" THEN Rethrow(contract.error)
    ELSE IF support.kind = "throw" THEN Rethrow(support.error)
    ELSE IF present # NoError THEN Rethrow(present)
    ELSE Return(HealthScoreResult(payment.value, engagement.value, contract.value,
                                  support.value, customerId, now))

\* the try block after the presence checks gave `present` and the four factor
\* calculations, made in this order, ended with payment, engagement, contract, support
TryBlock(present, payment, engagement, contract, support, customerId, now) ==
    IF present # NoError THEN Rethrow(present)
    ELSE IF payment.kind = "throw" THEN Rethrow(payment.error)
    ELSE IF engagement.kind = "throw" THEN Rethrow(engagement.error)
    ELSE IF contract.kind = "throw" THEN Rethrow(contract.error)
    ELSE IF support.kind = "throw" THEN Rethrow(support.error)
    ELSE Return(HealthScoreResult(payment.value, engagement.value, contract.value,
                                  support.value, customerId, now))

\* calculateHealthScore when `new Date()` gives `now`
HealthScoreAt(customerData, now) ==
    IF validateRequired(customerData, "customerData") # NoError
    THEN Throw(validateRequired(customerData, "customerData"))
    ELSE TryBlock(
             FirstError(
                 << ReadError(customerData, "payment"),
                    validateRequired(Get(customerData, "payment"), "customerData.payment"),
                    ReadError(customerData, "engagement"),
                    validateRequired(Get(customerData, "engagement"), "customerData.engagement"),
                    ReadError(customerData, "contract"),
                    validateRequired(Get(customerData, "contract"), "customerData.contract"),
                    ReadError(customerData, "support"),
                    validateRequired(Get(customerData, "support"), "customerData.support") >>),
             calculatePaymentScore(Get(customerData, "payment")),
             calculateEngagementScore(Get(customerData, "engagement")),
             calculateContractScore(Get(customerData, "contract")),
             calculateSupportScore(Get(customerData, "support")),
             Get(customerData, "customerId"), now)

\* calculateHealthScore keeping its last result in a module-level variable and
\* handing it out again without looking at the argument
calculateHealthScoreMemoized(customerData) ==
    IF outcome.kind = "return"
    THEN outcome
    ELSE HealthScoreAt(customerData, clock)

\* calculateHealthScore keeping the scores of the first call that returned in
\* module-level variables and building every later result from them
calculateHealthScoreFirstKept(customerData) ==
    IF first.outcome.kind = "return"
    THEN Return([first.outcome.value EXCEPT
                     !.calculatedAt = clock, !.customerId = Get(customerData, "customerId")])
    ELSE HealthScoreAt(customerData, clock)

calculateHealthScore(customerData) == HealthScoreAt(customerData, clock)

-----------------------------------------------------------------------------
(* Input records.  An omitted property reads as undefined.                  *)

PaymentHistory(daysSinceLastPayment, averagePaymentDelay, overdueAmount, paymentConsistency) ==
    [k |-> "object",
     daysSinceLastPayment |-> daysSinceLastPayment,
     averagePaymentDelay  |-> averagePaymentDelay,
     overdueAmount        |-> overdueAmount,
     paymentConsistency   |-> paymentConsistency]

EngagementMetrics(loginsPerMonth, featureUsageCount, supportTicketsOpened, activeUserCount) ==
    [k |-> "object",
     loginsPerMonth       |-> loginsPerMonth,
     featureUsageCount    |-> featureUsageCount,
     supportTicketsOpened |-> supportTicketsOpened,
     activeUserCount      |-> activeUserCount]

ContractInfo(daysUntilRenewal, contractValue, hasRecentUpgrades, autoRenewalEnabled) ==
    [k |-> "object",
     daysUntilRenewal   |-> daysUntilRenewal,
     contractValue      |-> contractValue,
     hasRecentUpgrades  |-> hasRecentUpgrades,
     autoRenewalEnabled |-> autoRenewalEnabled]

SupportData(averageResolutionTimeHours, satisfactionScore, escalationCount, openTicketCount) ==
    [k |-> "object",
     averageResolutionTimeHours |-> averageResolutionTimeHours,
     satisfactionScore          |-> satisfactionScore,
     escalationCount            |-> escalationCount,
     openTicketCount            |-> openTicketCount]

CustomerHealthData(payment, engagement, contract, support, customerId) ==
    [k |-> "object",
     payment    |-> payment,
     engagement |-> engagement,
     contract   |-> contract,
     support    |-> support,
     customerId |-> customerId]

\* The mock health data of customers '1' to '8'.  A row holds the numbers of one
\* customer as decimal literals <<digits, power of ten they are divided by>>, in the
\* order payment (4), engagement (4), contract (2), support (4), and then the flags
\* hasRecentUpgrades and autoRenewalEnabled.
mockRows ==
    << << <<5, 1>>, <<1, 1>>, <<0, 1>>, <<95, 100>>,
          <<48, 1>>, <<16, 1>>, <<2, 1>>, <<12, 1>>,
          <<240, 1>>, <<75000, 1>>,
          <<6, 1>>, <<48, 10>>, <<0, 1>>, <<1, 1>>, TRUE, TRUE >>,
       << <<28, 1>>, <<12, 1>>, <<2500, 1>>, <<65, 100>>,
          <<18, 1>>, <<6, 1>>, <<8, 1>>, <<3, 1>>,
          <<45, 1>>, <<15000, 1>>,
          <<36, 1>>, <<32, 10>>, <<2, 1>>, <<4, 1>>, FALSE, FALSE >>,
       << <<55, 1>>, <<28, 1>>, <<8500, 1>>, <<35, 100>>,
          <<4, 1>>, <<2, 1>>, <<18, 1>>, <<1, 1>>,
          <<15, 1>>, <<12000, 1>>,
          <<68, 1>>, <<18, 10>>, <<7, 1>>, <<12, 1>>, FALSE, FALSE >>,
       << <<2, 1>>, <<0, 1>>, <<0, 1>>, <<10, 10>>,
          <<58, 1>>, <<19, 1>>, <<1, 1>>, <<25, 1>>,
          <<320, 1>>, <<150000, 1>>,
          <<3, 1>>, <<50, 10>>, <<0, 1>>, <<0, 1>>, TRUE, TRUE >>,
       << <<18, 1>>, <<8, 1>>, <<1200, 1>>, <<75, 100>>,
          <<28, 1>>, <<10, 1>>, <<5, 1>>, <<6, 1>>,
          <<120, 1>>, <<45000, 1>>,
          <<24, 1>>, <<38, 10>>, <<1, 1>>, <<3, 1>>, FALSE, TRUE >>,
       << <<10, 1>>, <<3, 1>>, <<0, 1>>, <<88, 100>>,
          <<35, 1>>, <<13, 1>>, <<3, 1>>, <<8, 1>>,
          <<200, 1>>, <<55000, 1>>,
          <<12, 1>>, <<43, 10>>, <<0, 1>>, <<2, 1>>, TRUE, TRUE >>,
       << <<7, 1>>, <<2, 1>>, <<0, 1>>, <<92, 100>>,
          <<52, 1>>, <<18, 1>>, <<2, 1>>, <<18, 1>>,
          <<280, 1>>, <<120000, 1>>,
          <<8, 1>>, <<47, 10>>, <<0, 1>>, <<1, 1>>, TRUE, TRUE >>,
       << <<35, 1>>, <<18, 1>>, <<4200, 1>>, <<55, 100>>,
          <<12, 1>>, <<4, 1>>, <<12, 1>>, <<2, 1>>,
          <<60, 1>>, <<18000, 1>>,
          <<48, 1>>, <<29, 10>>, <<4, 1>>, <<6, 1>>, FALSE, FALSE >> >>

Boolean(b) == IF b THEN true ELSE false

\* the customer of one row: n are its numbers, in the order of the row
MockCustomer(n, hasRecentUpgrades, autoRenewalEnabled, customerId) ==
    CustomerHealthData(
        PaymentHistory(n[1], n[2], n[3], n[4]),
        EngagementMetrics(n[5], n[6], n[7], n[8]),
        ContractInfo(n[9], n[10], Boolean(hasRecentUpgrades), Boolean(autoRenewalEnabled)),
        SupportData(n[11], n[12], n[13], n[14]),
        Str(customerId))

mockCustomerHealthData ==
    [i \in DOMAIN mockRows |->
        MockCustomer([j \in 1..14 |-> Lit(mockRows[i][j][1], mockRows[i][j][2])],
                     mockRows[i][15], mockRows[i][16], i)]

-----------------------------------------------------------------------------
(* The arguments the calls are made with.                                   *)

\* values per graded field in the factor scorers' arguments: 0, 1/Grid, ... of the ceiling
Grid == 4

\* grades per factor in the arguments of calculateHealthScore
Levels == 2

\* calls made one after the other
MaxCalls == 3

\* values no numeric field may hold
BadNumbers == {undefined, null, NaN, Infinity, NegInfinity, Num(-5), Str(0)}

\* values that are no boolean
NonBooleans == {undefined, null, Str(0), Num(1), Zero}

\* the grade-k record of each factor: grade 0 is the best, grade n the worst
PaymentGrade(g, n) ==
    PaymentHistory(Lit(60 * g, n), Lit(30 * g, n), Lit(10000 * g, n), undefined)

EngagementGrade(g, n) ==
    EngagementMetrics(Lit(60 * (n - g), n), Lit(20 * (n - g), n), Lit(30 * g, n), undefined)

ContractGrade(g, n) ==
    ContractInfo(Lit(360 * (n - g), n), Lit(100000 * (n - g), n),
                 IF g = 0 THEN true ELSE false, undefined)

SupportGrade(g, n) ==
    SupportData(Lit(72 * g, n), Lit(n + 4 * (n - g), n), Lit(10 * g, n), Lit(20 * g, n))

MockIds == DOMAIN mockRows

PaymentInputs ==
    { PaymentHistory(Lit(60 * a, Grid), Lit(30 * b, Grid), Lit(10000 * c, Grid), d) :
          a \in 0..(Grid + 1), b \in 0..(Grid + 1), c \in 0..(Grid + 1),
          d \in {undefined} \cup { Lit(i, Grid) : i \in 0..Grid } }
    \cup { mockCustomerHealthData[i].payment : i \in MockIds }
    \cup { PaymentHistory(a, b, c, d) :
               a \in {Num(5)} \cup BadNumbers, b \in {Num(1)} \cup BadNumbers,
               c \in {Zero} \cup BadNumbers, d \in {Lit(95, 100), Num(2)} \cup BadNumbers }
    \cup {undefined, null}

EngagementInputs ==
    { EngagementMetrics(Lit(60 * a, Grid), Lit(20 * b, Grid), Lit(30 * c, Grid), d) :
          a \in 0..(Grid + 1), b \in 0..(Grid + 1), c \in 0..(Grid + 1),
          d \in {undefined} \cup { Lit(10 * i, Grid) : i \in 0..(Grid + 1) } }
    \cup { mockCustomerHealthData[i].engagement : i \in MockIds }
    \cup { EngagementMetrics(a, b, c, d) :
               a \in {Num(48)} \cup BadNumbers, b \in {Num(16)} \cup BadNumbers,
               c \in {Num(2)} \cup BadNumbers, d \in {Num(12)} \cup BadNumbers }
    \cup {undefined, null}

ContractInputs ==
    { ContractInfo(Lit(360 * a, Grid) , Lit(100000 * b, Grid), c, d) :
          a \in (-1)..(Grid + 1), b \in 0..(Grid + 1),
          c \in {true, false}, d \in {undefined, true, false} }
    \cup { mockCustomerHealthData[i].contract : i \in MockIds }
    \cup { ContractInfo(a, b, c, d) :
               a \in {Num(240)} \cup BadNumbers, b \in {Num(75000)} \cup BadNumbers,
               c \in {true} \cup NonBooleans, d \in {true} \cup NonBooleans }
    \cup {undefined, null}

SupportInputs ==
    { SupportData(Lit(72 * a, Grid), Lit(Grid + 4 * b, Grid), Lit(10 * c, Grid), Lit(20 * d, Grid)) :
          a \in 0..(Grid + 1), b \in 0..Grid, c \in 0..(Grid + 1), d \in 0..(Grid + 1) }
    \cup { mockCustomerHealthData[i].support : i \in MockIds }
    \cup { SupportData(a, b, c, d) :
               a \in {Num(6)} \cup BadNumbers, b \in {Lit(48, 10), Num(6), Lit(5, 10)} \cup BadNumbers,
               c \in {Zero} \cup BadNumbers, d \in {Num(1)} \cup BadNumbers }
    \cup {undefined, null}

\* the factor records calculateHealthScore is given, mixed freely
MixedPayments ==
    { PaymentGrade(g, Levels) : g \in 0..Levels }
    \cup { mockCustomerHealthData[i].payment : i \in {2, 3} }

MixedEngagements ==
    { EngagementGrade(g, Levels) : g \in 0..Levels }
    \cup { mockCustomerHealthData[i].engagement : i \in {2, 3} }

MixedContracts ==
    { ContractGrade(g, Levels) : g \in 0..Levels }
    \cup { mockCustomerHealthData[i].contract : i \in {2, 3} }

MixedSupports ==
    { SupportGrade(g, Levels) : g \in 0..Levels }
    \cup { mockCustomerHealthData[i].support : i \in {2, 3} }

RequiredPaymentFields == {"daysSinceLastPayment", "averagePaymentDelay", "overdueAmount"}

RequiredEngagementFields == {"loginsPerMonth", "featureUsageCount", "supportTicketsOpened"}

RequiredContractFields == {"daysUntilRenewal", "contractValue", "hasRecentUpgrades"}

RequiredSupportFields ==
    {"averageResolutionTimeHours", "satisfactionScore", "escalationCount", "openTicketCount"}

\* one required property of one factor record omitted or null, the rest as in the mock data
OneMissing(c) ==
    { [c EXCEPT !.payment[f] = v] :
          f \in RequiredPaymentFields, v \in {undefined, null} }
    \cup { [c EXCEPT !.engagement[f] = v] :
          f \in RequiredEngagementFields, v \in {undefined, null} }
    \cup { [c EXCEPT !.contract[f] = v] :
          f \in RequiredContractFields, v \in {undefined, null} }
    \cup { [c EXCEPT !.support[f] = v] :
          f \in RequiredSupportFields, v \in {undefined, null} }
    \cup { [c EXCEPT ![f] = v] :
          f \in {"payment", "engagement", "contract", "support"}, v \in {undefined, null} }

HealthInputs ==
    { CustomerHealthData(p, e, c, s, undefined) :
          p \in MixedPayments, e \in MixedEngagements, c \in MixedContracts, s \in MixedSupports }
    \cup { mockCustomerHealthData[i] : i \in MockIds }
    \cup OneMissing(mockCustomerHealthData[5])
    \cup {undefined, null}

\* the records r of the set with one of the fields omitted (undefined) or null
WithOneMissing(records, fields) ==
    { [r EXCEPT ![f] = v] : r \in records, f \in fields, v \in {undefined, null} }

\* the arguments with one required field missing, for each entry point
MissingInputs(entry) ==
    CASE entry = "calculatePaymentScore" ->
           WithOneMissing({ mockCustomerHealthData[i].payment : i \in MockIds },
                          RequiredPaymentFields)
      [] entry = "calculateEngagementScore" ->
           WithOneMissing({ mockCustomerHealthData[i].engagement : i \in MockIds },
                          RequiredEngagementFields)
      [] entry = "calculateContractScore" ->
           WithOneMissing({ mockCustomerHealthData[i].contract : i \in MockIds },
                          RequiredContractFields)
      [] entry = "calculateSupportScore" ->
           WithOneMissing({ mockCustomerHealthData[i].support : i \in MockIds },
                          RequiredSupportFields)
      [] OTHER ->
           UNION { OneMissing(mockCustomerHealthData[i]) : i \in {1, 3, 5} }

\* the arguments with any number of fields at fault, each in any way: missing,
\* of another type, not finite, negative or out of range, the valid values of a field
\* being one in its range, its ceiling, and values beyond the ceiling; for
\* calculateHealthScore one field or one record of a customer at fault, or read by a
\* getter that throws, or two records of a customer at fault, each missing or with a
\* field at fault
FaultyInputs(entry) ==
    CASE entry = "calculatePaymentScore" ->
           { PaymentHistory(a, b, c, d) :
                 a \in {Num(5), Num(60), Lit(121, 2), Num(60000)} \cup BadNumbers,
                 b \in {Num(1), Num(30), Lit(61, 2), Num(30000)} \cup BadNumbers,
                 c \in {Zero, Num(10000), Lit(20001, 2), Num(10000000)} \cup BadNumbers,
                 d \in {Zero, Num(1), Lit(95, 100), Num(2)} \cup BadNumbers }
      [] entry = "calculateEngagementScore" ->
           { EngagementMetrics(a, b, c, d) :
                 a \in {Num(48), Num(60), Lit(121, 2), Num(60000)} \cup BadNumbers,
                 b \in {Num(16), Num(20), Lit(41, 2), Num(20000)} \cup BadNumbers,
                 c \in {Num(2), Num(30), Lit(61, 2), Num(30000)} \cup BadNumbers,
                 d \in {Num(12), Num(10), Lit(21, 2), Num(4)} \cup BadNumbers }
      [] entry = "calculateContractScore" ->
           { ContractInfo(a, b, c, d) :
                 a \in {Num(240), Num(360), Lit(721, 2), Num(360000)} \cup BadNumbers,
                 b \in {Num(75000), Num(100000), Lit(200001, 2), Num(100000000)}
                       \cup BadNumbers,
                 c \in {true} \cup NonBooleans, d \in {true, false} \cup NonBooleans }
      [] entry = "calculateSupportScore" ->
           { SupportData(a, b, c, d) :
                 a \in {Num(6), Num(72), Lit(145, 2), Num(72000)} \cup BadNumbers,
                 b \in {Num(1), Num(5), Lit(48, 10), Num(6), Lit(5, 10)} \cup BadNumbers,
                 c \in {Zero, Num(10), Lit(21, 2), Num(10000)} \cup BadNumbers,
                 d \in {Num(1), Num(20), Lit(41, 2), Num(20000)} \cup BadNumbers }
      [] OTHER ->
           UNION { { [mockCustomerHealthData[5] EXCEPT ![r][f] = v] :
                         f \in DOMAIN mockCustomerHealthData[5][r] \ {"k"},
                         v \in BadNumbers \cup {Throwing(1), Throwing(0)} } :
                   r \in {"payment", "engagement", "contract", "support"} }
           \cup { [mockCustomerHealthData[5] EXCEPT ![r] = v] :
                 r \in {"payment", "engagement", "contract", "support"},
                 v \in {undefined, null, Throwing(1), Throwing(0)} }
           \cup UNION { { [mockCustomerHealthData[5] EXCEPT ![r[1]] = x, ![r[2]] = y] :
                             x \in WithOneMissing({mockCustomerHealthData[5][r[1]]},
                                                  DOMAIN mockCustomerHealthData[5][r[1]] \ {"k"})
                                   \cup { [mockCustomerHealthData[5][r[1]] EXCEPT ![f] = v] :
                                              f \in DOMAIN mockCustomerHealthData[5][r[1]] \ {"k"},
                                              v \in {Num(-5), Throwing(1)} }
                                   \cup {undefined},
                             y \in WithOneMissing({mockCustomerHealthData[5][r[2]]},
                                                  DOMAIN mockCustomerHealthData[5][r[2]] \ {"k"})
                                   \cup {undefined, null} } :
                       r \in { <<"payment", "engagement">>, <<"payment", "contract">>,
                               <<"payment", "support">>, <<"engagement", "contract">>,
                               <<"engagement", "support">>, <<"contract", "support">>,
                               <<"support", "payment">>, <<"contract", "engagement">> } }
           \cup {mockCustomerHealthData[5], undefined, null}

EntryPoints ==
    {"calculatePaymentScore", "calculateEngagementScore", "calculateContractScore",
     "calculateSupportScore", "calculateHealthScore"}

\* the arguments of calls made one after the other: customers of the mock data,
\* one of them also with no customerId and with a number for it, and invalid ones
CallInputs ==
    { mockCustomerHealthData[i] : i \in {1, 3, 5} }
    \cup { [mockCustomerHealthData[5] EXCEPT !.customerId = c] : c \in {undefined, Num(7)} }
    \cup { [mockCustomerHealthData[5] EXCEPT !.payment.overdueAmount = undefined],
           [mockCustomerHealthData[5] EXCEPT !.payment.overdueAmount = undefined,
                                             !.customerId = undefined],
           [mockCustomerHealthData[5] EXCEPT !.support.satisfactionScore = Num(6)] }

-----------------------------------------------------------------------------
(* The callers: one call of an entry point, or calls one after the other.   *)

NoOutcome == [kind |-> "none", value |-> undefined, error |-> NoError]

NoCall == [input |-> undefined, outcome |-> NoOutcome]

InitWith(entry, inputs) ==
    /\ op = entry
    /\ input \in inputs
    /\ outcome = NoOutcome
    /\ clock = 0
    /\ first = NoCall
    /\ others = 0
    /\ widget = [mounted |-> FALSE]

\* a call that ends having overwritten its argument
ReturnedArgumentOverwritten(result) ==
    /\ outcome' = result
    /\ clock' = clock + 1
    /\ first' = [input |-> input, outcome |-> result]
    /\ input' = null
    /\ UNCHANGED <<op, others, widget>>

Returned(result) ==
    /\ outcome' = result
    /\ clock' = clock + 1
    /\ first' = [input |-> input, outcome |-> result]
    /\ UNCHANGED <<op, input, others, widget>>

CallPaymentScore ==
    /\ op = "calculatePaymentScore" /\ outcome = NoOutcome
    /\ Returned(calculatePaymentScore(input))

CallEngagementScore ==
    /\ op = "calculateEngagementScore" /\ outcome = NoOutcome
    /\ Returned(calculateEngagementScore(input))

CallContractScore ==
    /\ op = "calculateContractScore" /\ outcome = NoOutcome
    /\ Returned(calculateContractScore(input))

CallSupportScore ==
    /\ op = "calculateSupportScore" /\ outcome = NoOutcome
    /\ Returned(calculateSupportScore(input))

CallHealthScore ==
    /\ op = "calculateHealthScore" /\ outcome = NoOutcome
    /\ Returned(calculateHealthScore(input))

\* a further call, with the argument of the first call or with another one
CallAgain ==
    /\ op = "calculateHealthScore" /\ outcome # NoOutcome
    /\ clock < MaxCalls
    /\ \E x \in CallInputs :
          /\ input' = x
          /\ outcome' = calculateHealthScore(x)
          /\ others' = IF x = first.input THEN others ELSE others + 1
    /\ clock' = clock + 1
    /\ UNCHANGED <<op, first, widget>>

Init == InitWith("calculateHealthScore", HealthInputs)

Next == CallHealthScore

Spec == Init /\ [][Next]_vars

InitPayment == InitWith("calculatePaymentScore", PaymentInputs)

NextPayment == CallPaymentScore

SpecPayment == InitPayment /\ [][NextPayment]_vars

InitEngagement == InitWith("calculateEngagementScore", EngagementInputs)

NextEngagement == CallEngagementScore

SpecEngagement == InitEngagement /\ [][NextEngagement]_vars

InitContract == InitWith("calculateContractScore", ContractInputs)

NextContract == CallContractScore

SpecContract == InitContract /\ [][NextContract]_vars

InitSupport == InitWith("calculateSupportScore", SupportInputs)

NextSupport == CallSupportScore

SpecSupport == InitSupport /\ [][NextSupport]_vars

InitCalls == InitWith("calculateHealthScore", CallInputs)

NextCalls == CallHealthScore \/ CallAgain

SpecCalls == InitCalls /\ [][NextCalls]_vars

InitFaulty == \E entry \in EntryPoints : InitWith(entry, FaultyInputs(entry))

NextFaulty ==
    \/ CallPaymentScore
    \/ CallEngagementScore
    \/ CallContractScore
    \/ CallSupportScore
    \/ CallHealthScore

SpecFaulty == InitFaulty /\ [][NextFaulty]_vars

InitMissing == \E entry \in EntryPoints : InitWith(entry, MissingInputs(entry))

NextMissing ==
    \/ CallPaymentScore
    \/ CallEngagementScore
    \/ CallContractScore
    \/ CallSupportScore
    \/ CallHealthScore

SpecMissing == InitMissing /\ [][NextMissing]_vars

\* the normalizers by themselves: the ranges the scorers give them and ranges of
\* no width; values across each range in thirds and sevenths, one step beyond it at
\* either end, and some values beside
NormalizerInputs ==
    UNION { { [k |-> "arguments", value |-> v, min |-> Num(r[1]), max |-> Num(r[2])] :
                  v \in { Lit(r[1] * d + (r[2] - r[1]) * j, d) : d \in {3, 7}, j \in (-1)..8 }
                        \cup {Zero, Num(7), Lit(48, 10), Num(-5)}
                        \cup (IF r[1] = r[2] THEN {NaN, Infinity} ELSE {}) } :
            r \in { <<0, 60>>, <<0, 30>>, <<0, 10000>>, <<0, 20>>, <<5, 15>>, <<15, 30>>,
                    <<1, 10>>, <<0, 150>>, <<0, 180>>, <<0, 100000>>, <<1, 5>>, <<0, 72>>,
                    <<0, 10>>, <<0, 0>>, <<5, 5>>, <<-3, -3>> } }

CallNormalizeToScore ==
    /\ op = "normalizeToScore" /\ outcome = NoOutcome
    /\ Returned(Return(normalizeToScore(input.value, input.min, input.max)))

CallInverseNormalizeToScore ==
    /\ op = "inverseNormalizeToScore" /\ outcome = NoOutcome
    /\ Returned(Return(inverseNormalizeToScore(input.value, input.min, input.max)))

InitNormalize ==
    \E entry \in {"normalizeToScore", "inverseNormalizeToScore"} :
        InitWith(entry, NormalizerInputs)

NextNormalize == CallNormalizeToScore \/ CallInverseNormalizeToScore

SpecNormalize == InitNormalize /\ [][NextNormalize]_vars

-----------------------------------------------------------------------------
(* The CustomerHealthDisplay widget, rendered with the props isLoading, error *)
(* and onScoreCalculated left out, as they may be.  The calculation started  *)
(* by the effect waits for a 10 ms timer; timers of one delay fire in the    *)
(* order they were set.                                                      *)

\* calculations that may wait for their timers at one time
MaxPending == 2

\* the customers the widget is given: two that are scored, one that fails
\* validation and one whose payment record throws when it is read
WidgetCustomers ==
    { mockCustomerHealthData[1], mockCustomerHealthData[3],
      [mockCustomerHealthData[5] EXCEPT !.payment.overdueAmount = undefined],
      [mockCustomerHealthData[8] EXCEPT !.payment = Throwing(1)] }

\* which of its four returns the component renders
View(w) ==
    IF w.isCalculating THEN "loading"
    ELSE IF w.calculationError # null THEN "error"
    ELSE IF ~Truthy(w.customerData) \/ w.healthResult = null THEN "empty"
    ELSE "score"

\* the parent renders the component with another customerData, or with none
SelectCustomer ==
    /\ widget.mounted
    /\ \E c \in WidgetCustomers \cup {null} :
          /\ c # widget.customerData
          /\ widget' = [widget EXCEPT !.customerData = c, !.effectDue = TRUE]
    /\ UNCHANGED <<op, input, outcome, clock, first, others>>

\* the effect runs for the customerData of the last render: it clears the state
\* when there is none, and otherwise starts calculateScore, which runs up to its await
RunEffect ==
    /\ widget.mounted /\ widget.effectDue
    /\ ~Truthy(widget.customerData) \/ Len(widget.pending) < MaxPending
    /\ widget' =
          IF ~Truthy(widget.customerData)
          THEN [widget EXCEPT !.healthResult = null, !.calculationError = null,
                              !.effectDue = FALSE]
          ELSE [widget EXCEPT !.isCalculating = TRUE, !.calculationError = null,
                              !.pending = Append(@, widget.customerData),
                              !.effectDue = FALSE]
    /\ UNCHANGED <<op, input, outcome, clock, first, others>>

\* the oldest timer fires and its calculateScore runs to its end, for the
\* customerData it was started with
TimerFires ==
    /\ widget.mounted /\ widget.pending # << >>
    /\ LET result == calculateHealthScore(Head(widget.pending))
       IN  widget' =
             IF result.kind = "return"
             THEN [widget EXCEPT !.healthResult = result.value,
                                 !.isCalculating = FALSE, !.pending = Tail(@)]
             ELSE [widget EXCEPT
                     !.calculationError =
                         IF result.error.name = "InvalidInputError"
                         THEN [result.error.message EXCEPT !.prefix = "Invalid data: "]
                         ELSE result.error.message,
                     !.healthResult = null, !.isCalculating = FALSE,
                     !.pending = Tail(@)]
    /\ UNCHANGED <<op, input, outcome, clock, first, others>>

\* a press of the Retry button of the error state: when calculateHealthScore
\* throws, the onClick ends there, after setCalculationError(null)
Retry ==
    /\ widget.mounted /\ View(widget) = "error"
    /\ LET result == calculateHealthScore(widget.customerData)
       IN  widget' =
             IF Truthy(widget.customerData) /\ result.kind = "return"
             THEN [widget EXCEPT !.calculationError = null,
                                 !.healthResult = result.value]
             ELSE [widget EXCEPT !.calculationError = null]
    /\ UNCHANGED <<op, input, outcome, clock, first, others>>

\* a press of the button that opens and closes the breakdown
ToggleExpanded ==
    /\ widget.mounted /\ View(widget) = "score"
    /\ widget' = [widget EXCEPT !.isExpanded = ~@]
    /\ UNCHANGED <<op, input, outcome, clock, first, others>>

\* the component mounted with some customerData or none, its effect still to
\* run; then the changes of customerData, the effect, the timers and the buttons
SpecWidget ==
    /\ \E c \in WidgetCustomers \cup {null} :
          /\ op = "CustomerHealthDisplay"
          /\ input = undefined
          /\ outcome = NoOutcome
          /\ clock = 0
          /\ first = NoCall
          /\ others = 0
          /\ widget = [mounted |-> TRUE, customerData |-> c, healthResult |-> null,
                       calculationError |-> null, isExpanded |-> FALSE,
                       isCalculating |-> FALSE, effectDue |-> TRUE,
                       pending |-> << >>]
    /\ [][SelectCustomer \/ RunEffect \/ TimerFires \/ Retry \/ ToggleExpanded]_vars

-----------------------------------------------------------------------------
(* What the documentation calls valid input, and what a call ended with.    *)

Called == outcome # NoOutcome

ReturnedValue == outcome.kind = "return"

Missing(v) == v.k \in {"undefined", "null"}

Absent(v) == v.k = "undefined"

NonNegativeNumber(v) == v.k = "finite" /\ ~FLess(v, Zero)

NumberWithin(v, lo, hi) == v.k = "finite" /\ ~FLess(v, Num(lo)) /\ ~FLess(Num(hi), v)

IsBoolean(v) == v.k = "boolean"

ValidPayment(r) ==
    /\ r.k = "object"
    /\ NonNegativeNumber(r.daysSinceLastPayment)
    /\ NonNegativeNumber(r.averagePaymentDelay)
    /\ NonNegativeNumber(r.overdueAmount)
    /\ (Absent(r.paymentConsistency) \/ NumberWithin(r.paymentConsistency, 0, 1))

ValidEngagement(r) ==
    /\ r.k = "object"
    /\ NonNegativeNumber(r.loginsPerMonth)
    /\ NonNegativeNumber(r.featureUsageCount)
    /\ NonNegativeNumber(r.supportTicketsOpened)
    /\ (Absent(r.activeUserCount) \/ NonNegativeNumber(r.activeUserCount))

ValidContract(r) ==
    /\ r.k = "object"
    /\ r.daysUntilRenewal.k = "finite"
    /\ NonNegativeNumber(r.contractValue)
    /\ IsBoolean(r.hasRecentUpgrades)
    /\ (Absent(r.autoRenewalEnabled) \/ IsBoolean(r.autoRenewalEnabled))

ValidSupport(r) ==
    /\ r.k = "object"
    /\ NonNegativeNumber(r.averageResolutionTimeHours)
    /\ NumberWithin(r.satisfactionScore, 1, 5)
    /\ NonNegativeNumber(r.escalationCount)
    /\ NonNegativeNumber(r.openTicketCount)

ValidHealth(c) ==
    /\ c.k = "object"
    /\ ValidPayment(c.payment)
    /\ ValidEngagement(c.engagement)
    /\ ValidContract(c.contract)
    /\ ValidSupport(c.support)

Factors == {"payment", "engagement", "contract", "support"}

\* an integer from 0 to 100
ScoreInRange(v) == IsInteger(v) /\ NumberWithin(v, 0, 100)

\* lo <= v <= hi
Between(v, lo, hi) == JsLeq(Num(lo), v) /\ JsLeq(v, Num(hi))

\* the sum the result's four weighted scores add up to, taken in their order
WeightedSum(b) ==
    FAdd(FAdd(FAdd(b.payment.weightedScore, b.engagement.weightedScore),
              b.contract.weightedScore),
         b.support.weightedScore)

\* 0.4 payment + 0.3 engagement + 0.2 contract + 0.1 support, of the result's scores
DecimalSum(b) ==
    FAdd(FAdd(FAdd(FMul(Lit(4, 10), b.payment.score), FMul(Lit(3, 10), b.engagement.score)),
              FMul(Lit(2, 10), b.contract.score)),
         FMul(Lit(1, 10), b.support.score))

\* the sum of the result's four weights, taken in their order
WeightSum(b) ==
    FAdd(FAdd(FAdd(b.payment.weight, b.engagement.weight), b.contract.weight),
         b.support.weight)

\* 2^-52, the distance from 1.0 to the next number above it
Epsilon == FMul(Lit(1, 2^26), Lit(1, 2^26))

DecimalWeights ==
    [payment |-> Lit(40, 100), engagement |-> Lit(30, 100),
     contract |-> Lit(20, 100), support |-> Lit(10, 100)]

HasDecimalWeights(b) == \A f \in Factors : b[f].weight = DecimalWeights[f]

-----------------------------------------------------------------------------
(* The aggregate result.                                                    *)

\* C1: for every valid CustomerHealthData, calculateHealthScore returns, and the
\* overallScore and each of the four breakdown scores is an integer in [0,100].
C1_ScoresAreIntegersInRange ==
    (Called /\ ValidHealth(input)) =>
        /\ ReturnedValue
        /\ ScoreInRange(outcome.value.overallScore)
        /\ \A f \in Factors : ScoreInRange(outcome.value.breakdown[f].score)

\* a valid customer, every factor at its worst, scored 0 overall
C1_Witness ==
    /\ Called /\ ValidHealth(input) /\ ReturnedValue
    /\ outcome.value.overallScore = Zero
    /\ \A f \in Factors : outcome.value.breakdown[f].score = Zero

\* C2: riskLevel is decided by overallScore alone: 'critical' exactly for 0..30,
\* 'warning' exactly for 31..70, 'healthy' exactly for 71..100.
C2_RiskLevelPartition ==
    ReturnedValue =>
        /\ outcome.value.riskLevel \in {"critical", "warning", "healthy"}
        /\ outcome.value.riskLevel = "critical" <=> Between(outcome.value.overallScore, 0, 30)
        /\ outcome.value.riskLevel = "warning" <=> Between(outcome.value.overallScore, 31, 70)
        /\ outcome.value.riskLevel = "healthy" <=> Between(outcome.value.overallScore, 71, 100)

\* a result at the lowest score that is healthy
C2_Witness ==
    /\ ReturnedValue
    /\ outcome.value.overallScore = Num(71)
    /\ outcome.value.riskLevel = "healthy"

\* C3: in every result each weightedScore is score * weight, and overallScore is
\* the sum of the four weighted scores rounded to the nearest integer.
C3_WeightedSum ==
    ReturnedValue =>
        /\ \A f \in Factors :
              outcome.value.breakdown[f].weightedScore
                  = FMul(outcome.value.breakdown[f].score, outcome.value.breakdown[f].weight)
        /\ outcome.value.overallScore = MathRound(WeightedSum(outcome.value.breakdown))
        /\ outcome.value.overallScore = MathRound(DecimalSum(outcome.value.breakdown))

\* a result whose weighted scores do not add up to an integer, so that rounding shows
C3_Witness ==
    /\ ReturnedValue
    /\ ~IsInteger(WeightedSum(outcome.value.breakdown))
    /\ outcome.value.breakdown.support.weightedScore # Zero

-----------------------------------------------------------------------------
(* Calls one after the other.                                               *)

\* the two outcomes agree in everything but the time stamp
SameButTime(a, b) ==
    /\ a.kind = b.kind
    /\ a.kind = "return" =>
          /\ a.value.overallScore = b.value.overallScore
          /\ a.value.riskLevel = b.value.riskLevel
          /\ a.value.breakdown = b.value.breakdown
    /\ a.kind = "throw" =>
          /\ a.error.name = b.error.name
          /\ a.error.message = b.error.message

-----------------------------------------------------------------------------
(* The factor scores, as the documentation gives their formulas.            *)

PaymentFormula(r) ==
    FAdd(FAdd(FMul(Lit(30, 100),
                   inverseNormalizeToScore(MathMin(r.daysSinceLastPayment, Num(60)),
                                           Zero, Num(60))),
              FMul(Lit(35, 100),
                   inverseNormalizeToScore(MathMin(r.averagePaymentDelay, Num(30)),
                                           Zero, Num(30)))),
         FMul(Lit(35, 100),
              inverseNormalizeToScore(MathMin(r.overdueAmount, Num(10000)),
                                      Zero, Num(10000))))

PaymentFormulaWithBonus(r) ==
    IF Absent(r.paymentConsistency) THEN PaymentFormula(r)
    ELSE MathMin(Num(100), FAdd(PaymentFormula(r), FMul(r.paymentConsistency, Num(10))))

\* C6: for every valid PaymentHistory calculatePaymentScore returns round(clamp(base)),
\* base = 0.30 inverseNormalize(min(days,60),0,60) + 0.35 inverseNormalize(min(delay,30),0,30)
\* + 0.35 inverseNormalize(min(overdue,10000),0,10000), replaced by
\* min(100, base + paymentConsistency * 10) when paymentConsistency is present.
C6_PaymentFormula ==
    (Called /\ ValidPayment(input)) =>
        outcome = Return(MathRound(clampScore(PaymentFormulaWithBonus(input))))

\* a payment history with a consistency bonus, scored strictly between 0 and 100,
\* whose three component scores differ
C6_Witness ==
    /\ Called /\ ValidPayment(input) /\ ReturnedValue
    /\ ~Absent(input.paymentConsistency) /\ ~IsZero(input.paymentConsistency)
    /\ FLess(Zero, outcome.value) /\ FLess(outcome.value, Num(100))
    /\ FLess(input.averagePaymentDelay, input.daysSinceLastPayment)

TicketFormula(tickets) ==
    IF FLeq(tickets, Num(5)) THEN Num(100)
    ELSE IF FLeq(tickets, Num(15)) THEN inverseNormalizeToScore(tickets, Num(5), Num(15))
    ELSE inverseNormalizeToScore(MathMin(tickets, Num(30)), Num(15), Num(30))

EngagementFormula(r) ==
    FAdd(FAdd(FMul(Lit(40, 100),
                   normalizeToScore(MathMin(r.loginsPerMonth, Num(60)), Zero, Num(60))),
              FMul(Lit(40, 100),
                   normalizeToScore(MathMin(r.featureUsageCount, Num(20)), Zero, Num(20)))),
         FMul(Lit(20, 100), TicketFormula(r.supportTicketsOpened)))

EngagementFormulaWithBonus(r) ==
    IF Absent(r.activeUserCount) THEN EngagementFormula(r)
    ELSE MathMin(Num(100),
                 FAdd(EngagementFormula(r),
                      FMul(normalizeToScore(MathMin(r.activeUserCount, Num(10)),
                                            Num(1), Num(10)),
                           Lit(15, 100))))

RenewalFormula(days) ==
    IF FLess(days, Zero) THEN Zero
    ELSE IF FLess(days, Num(30))
    THEN FMul(normalizeToScore(days, Zero, Num(30)), Lit(5, 10))
    ELSE IF FLess(days, Num(180))
    THEN FAdd(Num(50), FMul(normalizeToScore(FSub(days, Num(30)), Zero, Num(150)), Lit(3, 10)))
    ELSE FAdd(Num(80),
              FMul(normalizeToScore(MathMin(FSub(days, Num(180)), Num(180)), Zero, Num(180)),
                   Lit(2, 10)))

ContractFormula(r) ==
    MathMin(Num(100),
            FAdd(FAdd(FAdd(FMul(Lit(5, 10), RenewalFormula(r.daysUntilRenewal)),
                           FMul(Lit(5, 10),
                                normalizeToScore(MathMin(r.contractValue, Num(100000)),
                                                 Zero, Num(100000)))),
                      IF r.hasRecentUpgrades = true THEN Num(15) ELSE Zero),
                 IF r.autoRenewalEnabled = true THEN Num(10) ELSE Zero))

\* C8: for every valid ContractInfo calculateContractScore returns
\* round(clamp(min(100, 0.5 renewalScore + 0.5 normalize(min(value,100000),0,100000)
\* + (hasRecentUpgrades ? 15 : 0) + (autoRenewalEnabled === true ? 10 : 0)))), with
\* renewalScore 0 below 0 days, normalize(days,0,30) * 0.5 below 30,
\* 50 + normalize(days-30,0,150) * 0.3 below 180, and
\* 80 + normalize(min(days-180,180),0,180) * 0.2 from 180 on.
C8_ContractFormula ==
    (Called /\ ValidContract(input)) =>
        outcome = Return(MathRound(clampScore(ContractFormula(input))))

\* a contract in the band from 30 to 180 days, upgraded and renewing automatically,
\* scored below the cap
C8_Witness ==
    /\ Called /\ ValidContract(input) /\ ReturnedValue
    /\ FLess(Num(30), input.daysUntilRenewal) /\ FLess(input.daysUntilRenewal, Num(180))
    /\ input.hasRecentUpgrades = true /\ input.autoRenewalEnabled = true
    /\ FLess(outcome.value, Num(100))

SupportFormula(r) ==
    FAdd(FAdd(FAdd(FMul(Lit(25, 100),
                        inverseNormalizeToScore(
                            MathMin(r.averageResolutionTimeHours, Num(72)), Zero, Num(72))),
                   FMul(Lit(40, 100), normalizeToScore(r.satisfactionScore, Num(1), Num(5)))),
              FMul(Lit(20, 100),
                   inverseNormalizeToScore(MathMin(r.escalationCount, Num(10)),
                                           Zero, Num(10)))),
         FMul(Lit(15, 100),
              inverseNormalizeToScore(MathMin(r.openTicketCount, Num(20)), Zero, Num(20))))

\* C9: for every valid SupportData calculateSupportScore returns
\* round(clamp(0.25 inverseNormalize(min(hours,72),0,72) + 0.40 normalize(satisfaction,1,5)
\* + 0.20 inverseNormalize(min(escalations,10),0,10)
\* + 0.15 inverseNormalize(min(openTickets,20),0,20))).
C9_SupportFormula ==
    (Called /\ ValidSupport(input)) =>
        outcome = Return(MathRound(clampScore(SupportFormula(input))))

\* support data with a resolution time short of the ceiling, scored between 0 and 100
C9_Witness ==
    /\ Called /\ ValidSupport(input) /\ ReturnedValue
    /\ FLess(Zero, input.averageResolutionTimeHours)
    /\ FLess(input.averageResolutionTimeHours, Num(36))
    /\ FLess(Zero, outcome.value) /\ FLess(outcome.value, Num(100))

-----------------------------------------------------------------------------
(* Missing required fields.                                                 *)

\* field f of record r is missing, and r with a value there would be valid
PaymentFieldMissing(r, f) ==
    r.k = "object" /\ Missing(r[f]) /\ ValidPayment([r EXCEPT ![f] = Zero])

EngagementFieldMissing(r, f) ==
    r.k = "object" /\ Missing(r[f]) /\ ValidEngagement([r EXCEPT ![f] = Zero])

ContractFieldMissing(r, f) ==
    /\ r.k = "object" /\ Missing(r[f])
    /\ ValidContract([r EXCEPT ![f] = IF f = "hasRecentUpgrades" THEN true ELSE Zero])

SupportFieldMissing(r, f) ==
    r.k = "object" /\ Missing(r[f]) /\ ValidSupport([r EXCEPT ![f] = Num(1)])

\* the call threw an InvalidInputError whose message names field f
ThrewNaming(f) ==
    /\ outcome.kind = "throw"
    /\ outcome.value = undefined
    /\ outcome.error.name = "InvalidInputError"
    /\ outcome.error.message.field = f

\* C10: when one required field of a sub-record is missing (undefined or null) and
\* all else is valid, the factor scorer, and calculateHealthScore given a customer
\* with that sub-record, throws an InvalidInputError whose message names the
\* field, and returns no score.
C10_MissingFieldNamed ==
    Called =>
        /\ \A f \in RequiredPaymentFields :
              \/ op = "calculatePaymentScore" /\ PaymentFieldMissing(input, f)
              \/ /\ op = "calculateHealthScore" /\ input.k = "object"
                 /\ PaymentFieldMissing(input.payment, f)
                 /\ ValidEngagement(input.engagement)
                 /\ ValidContract(input.contract) /\ ValidSupport(input.support)
              => ThrewNaming(f)
        /\ \A f \in RequiredEngagementFields :
              \/ op = "calculateEngagementScore" /\ EngagementFieldMissing(input, f)
              \/ /\ op = "calculateHealthScore" /\ input.k = "object"
                 /\ EngagementFieldMissing(input.engagement, f)
                 /\ ValidPayment(input.payment)
                 /\ ValidContract(input.contract) /\ ValidSupport(input.support)
              => ThrewNaming(f)
        /\ \A f \in RequiredContractFields :
              \/ op = "calculateContractScore" /\ ContractFieldMissing(input, f)
              \/ /\ op = "calculateHealthScore" /\ input.k = "object"
                 /\ ContractFieldMissing(input.contract, f)
                 /\ ValidPayment(input.payment)
                 /\ ValidEngagement(input.engagement) /\ ValidSupport(input.support)
              => ThrewNaming(f)
        /\ \A f \in RequiredSupportFields :
              \/ op = "calculateSupportScore" /\ SupportFieldMissing(input, f)
              \/ /\ op = "calculateHealthScore" /\ input.k = "object"
                 /\ SupportFieldMissing(input.support, f)
                 /\ ValidPayment(input.payment)
                 /\ ValidEngagement(input.engagement) /\ ValidContract(input.contract)
              => ThrewNaming(f)

\* calculateHealthScore given a customer whose hasRecentUpgrades is null
C10_Witness ==
    /\ Called /\ op = "calculateHealthScore" /\ input.k = "object"
    /\ ContractFieldMissing(input.contract, "hasRecentUpgrades")
    /\ input.contract.hasRecentUpgrades = null
    /\ ThrewNaming("hasRecentUpgrades")

-----------------------------------------------------------------------------
(* Invalid values.                                                          *)

FactorScorers ==
    {"calculatePaymentScore", "calculateEngagementScore", "calculateContractScore",
     "calculateSupportScore"}

\* the fields declared non-negative, by scorer
NonNegativeFields ==
    [calculatePaymentScore |->
         {"daysSinceLastPayment", "averagePaymentDelay", "overdueAmount", "paymentConsistency"},
     calculateEngagementScore |->
         {"loginsPerMonth", "featureUsageCount", "supportTicketsOpened", "activeUserCount"},
     calculateContractScore |-> {"contractValue"},
     calculateSupportScore |->
         {"averageResolutionTimeHours", "escalationCount", "openTicketCount"}]

\* a number below zero
Negative(v) == v.k \in {"finite", "inf"} /\ NumLess(v, Zero)

ThrewInvalidInput ==
    outcome.kind = "throw" /\ outcome.value = undefined /\ outcome.error.name = "InvalidInputError"

\* the contract score of r when its renewal score is 0
ExpiredContractFormula(r) ==
    MathMin(Num(100),
            FAdd(FAdd(FAdd(FMul(Lit(5, 10), Zero),
                           FMul(Lit(5, 10),
                                normalizeToScore(MathMin(r.contractValue, Num(100000)),
                                                 Zero, Num(100000)))),
                      IF r.hasRecentUpgrades = true THEN Num(15) ELSE Zero),
                 IF r.autoRenewalEnabled = true THEN Num(10) ELSE Zero))

\* C11: a negative value in a field declared non-negative makes the factor scorer
\* throw an InvalidInputError, whatever the other fields hold; a negative finite
\* daysUntilRenewal in an otherwise valid contract is accepted and scored with
\* renewalScore 0.
C11_NegativeRejectedButRenewal ==
    (Called /\ op \in FactorScorers /\ input.k = "object") =>
        /\ (\E f \in NonNegativeFields[op] : Negative(input[f])) => ThrewInvalidInput
        /\ (op = "calculateContractScore" /\ ValidContract(input)
                /\ Negative(input.daysUntilRenewal))
              => outcome = Return(MathRound(clampScore(ExpiredContractFormula(input))))

\* an expired contract, 5 days past renewal, scored 63 from its value and bonuses
C11_Witness ==
    /\ Called /\ op = "calculateContractScore" /\ ValidContract(input)
    /\ input.daysUntilRenewal = Num(-5)
    /\ outcome = Return(Num(63))

\* C12: with the other fields valid, calculateSupportScore throws an
\* InvalidInputError exactly when a finite satisfactionScore is outside [1,5], and
\* calculatePaymentScore exactly when a present finite paymentConsistency is outside
\* [0,1]; the bounds 1 and 5, and 0 and 1, are accepted and a score is returned.
C12_RangeInclusive ==
    Called =>
        /\ (/\ op = "calculateSupportScore" /\ input.k = "object"
            /\ input.satisfactionScore.k = "finite"
            /\ NonNegativeNumber(input.averageResolutionTimeHours)
            /\ NonNegativeNumber(input.escalationCount)
            /\ NonNegativeNumber(input.openTicketCount))
              => /\ ThrewInvalidInput <=> ~NumberWithin(input.satisfactionScore, 1, 5)
                 /\ ReturnedValue <=> NumberWithin(input.satisfactionScore, 1, 5)
        /\ (/\ op = "calculatePaymentScore" /\ input.k = "object"
            /\ input.paymentConsistency.k = "finite"
            /\ NonNegativeNumber(input.daysSinceLastPayment)
            /\ NonNegativeNumber(input.averagePaymentDelay)
            /\ NonNegativeNumber(input.overdueAmount))
              => /\ ThrewInvalidInput <=> ~NumberWithin(input.paymentConsistency, 0, 1)
                 /\ ReturnedValue <=> NumberWithin(input.paymentConsistency, 0, 1)

\* support data with satisfactionScore 5, the upper bound, scored
C12_Witness ==
    /\ Called /\ op = "calculateSupportScore" /\ input.k = "object"
    /\ input.satisfactionScore = Num(5)
    /\ ReturnedValue

\* the numeric fields, by scorer
NumericFields ==
    [calculatePaymentScore |->
         {"daysSinceLastPayment", "averagePaymentDelay", "overdueAmount", "paymentConsistency"},
     calculateEngagementScore |->
         {"loginsPerMonth", "featureUsageCount", "supportTicketsOpened", "activeUserCount"},
     calculateContractScore |-> {"daysUntilRenewal", "contractValue"},
     calculateSupportScore |->
         {"averageResolutionTimeHours", "satisfactionScore", "escalationCount",
          "openTicketCount"}]

\* the scorer of each sub-record of a customer
ScorerOf ==
    [payment |-> "calculatePaymentScore", engagement |-> "calculateEngagementScore",
     contract |-> "calculateContractScore", support |-> "calculateSupportScore"]

\* NaN, +Infinity or -Infinity
NonFinite(v) == v.k \in {"nan", "inf"}

\* record r, given to the scorer named, holds a non-finite number in a numeric field
HoldsNonFinite(r, scorer) ==
    r.k = "object" /\ \E f \in NumericFields[scorer] : NonFinite(r[f])

\* C13: NaN, +Infinity or -Infinity in a numeric field (the optional ones
\* included) makes the factor scorer throw an InvalidInputError, whatever the other
\* fields hold, and calculateHealthScore too: no call returns a score for it.
C13_NonFiniteRejected ==
    Called =>
        /\ (op \in FactorScorers /\ HoldsNonFinite(input, op)) => ThrewInvalidInput
        /\ (/\ op = "calculateHealthScore" /\ input.k = "object"
            /\ \E r \in Factors : HoldsNonFinite(input[r], ScorerOf[r]))
              => ThrewInvalidInput

\* calculateEngagementScore given an infinite activeUserCount and nothing else wrong
C13_Witness ==
    /\ Called /\ op = "calculateEngagementScore" /\ input.k = "object"
    /\ input.activeUserCount = Infinity
    /\ ValidEngagement([input EXCEPT !.activeUserCount = undefined])
    /\ ThrewInvalidInput /\ outcome.error.message.field = "activeUserCount"

-----------------------------------------------------------------------------
(* The order of validation.                                                 *)

\* the fields of each scorer's record, in the order the record declares them
FieldOrder ==
    [calculatePaymentScore |->
         <<"daysSinceLastPayment", "averagePaymentDelay", "overdueAmount", "paymentConsistency">>,
     calculateEngagementScore |->
         <<"loginsPerMonth", "featureUsageCount", "supportTicketsOpened", "activeUserCount">>,
     calculateContractScore |->
         <<"daysUntilRenewal", "contractValue", "hasRecentUpgrades", "autoRenewalEnabled">>,
     calculateSupportScore |->
         <<"averageResolutionTimeHours", "satisfactionScore", "escalationCount",
           "openTicketCount">>]

\* the finite number v is below or beyond what field f admits
OutOfBounds(f, v) ==
    CASE f = "satisfactionScore"  -> ~NumberWithin(v, 1, 5)
      [] f = "paymentConsistency" -> ~NumberWithin(v, 0, 1)
      [] f = "daysUntilRenewal"   -> FALSE
      [] OTHER                    -> FLess(v, Zero)

\* what is wrong with value v of field f: 0 nothing, 1 a required field missing,
\* 2 a required number not finite, 3 a required number negative or out of range,
\* 4 an optional field present and not finite, out of range or no boolean
Fault(f, v) ==
    CASE f = "autoRenewalEnabled" -> IF v.k \in {"undefined", "boolean"} THEN 0 ELSE 4
      [] f \in {"paymentConsistency", "activeUserCount"} ->
           IF v.k = "undefined" THEN 0
           ELSE IF v.k # "finite" THEN 4
           ELSE IF OutOfBounds(f, v) THEN 4 ELSE 0
      [] f = "hasRecentUpgrades" -> IF Missing(v) THEN 1 ELSE 0
      [] OTHER ->
           IF Missing(v) THEN 1
           ELSE IF v.k # "finite" THEN 2
           ELSE IF OutOfBounds(f, v) THEN 3 ELSE 0

\* the positions of the invalid fields of the argument
InvalidPositions ==
    { i \in 1..4 : Fault(FieldOrder[op][i], input[FieldOrder[op][i]]) > 0 }

\* the first invalid field in field order
FirstInvalidField ==
    FieldOrder[op][CHOOSE i \in InvalidPositions : \A j \in InvalidPositions : i <= j]

\* the field of the first check to fail, the checks being made kind by kind:
\* presence of every required field, then finiteness of each, then sign or range
\* of each, then the optional field
FirstFailingCheckField ==
    FieldOrder[op][CHOOSE i \in InvalidPositions : \A j \in InvalidPositions :
        \/ Fault(FieldOrder[op][i], input[FieldOrder[op][i]])
               < Fault(FieldOrder[op][j], input[FieldOrder[op][j]])
        \/ /\ Fault(FieldOrder[op][i], input[FieldOrder[op][i]])
                  = Fault(FieldOrder[op][j], input[FieldOrder[op][j]])
           /\ i <= j]

\* C14 as amended: validation in a factor scorer is fail-fast and goes check by
\* check: with several fields invalid one InvalidInputError is thrown, for the first
\* failing check: a missing required field before a non-finite one, that before a
\* negative or out-of-range one, that before the optional field, and among fields
\* with the same kind of violation the first in field order.
C14_FirstFailingCheck ==
    (Called /\ op \in FactorScorers /\ input.k = "object" /\ InvalidPositions # {}) =>
        ThrewInvalidInput /\ outcome.error.message.field = FirstFailingCheckField

\* a payment history with a negative first field, a non-finite second and a missing
\* third: the error names the third
C14_Witness ==
    /\ Called /\ op = "calculatePaymentScore" /\ input.k = "object"
    /\ input.daysSinceLastPayment = Num(-5)
    /\ input.averagePaymentDelay = NaN
    /\ input.overdueAmount = null
    /\ ThrewInvalidInput /\ outcome.error.message.field = "overdueAmount"

\* C14 as stated: with several fields invalid the InvalidInputError is for the first
\* invalid field in the record's field order, whatever the kinds of violation.
C14_FirstInvalidFieldInOrder ==
    (Called /\ op \in FactorScorers /\ input.k = "object" /\ InvalidPositions # {}) =>
        ThrewInvalidInput /\ outcome.error.message.field = FirstInvalidField

-----------------------------------------------------------------------------
(* Errors leaving calculateHealthScore.                                     *)

\* the sub-records in the order calculateHealthScore checks and scores them
FactorOrder == <<"payment", "engagement", "contract", "support">>

\* what the scorer of the i-th sub-record of the argument ends with
ScorerOutcome(i) ==
    CASE i = 1 -> calculatePaymentScore(input.payment)
      [] i = 2 -> calculateEngagementScore(input.engagement)
      [] i = 3 -> calculateContractScore(input.contract)
      [] i = 4 -> calculateSupportScore(input.support)

\* all four sub-records are there, so that every presence check passes
AllPresent == input.k = "object" /\ \A r \in Factors : input[r].k = "object"

\* the i-th scorer is the first one to throw
FirstToThrow(i) ==
    /\ AllPresent
    /\ ScorerOutcome(i).kind = "throw"
    /\ \A j \in 1..(i - 1) : ScorerOutcome(j).kind = "return"

\* the i-th sub-record is the first one missing, those before it being there
FirstMissing(i) ==
    /\ input.k = "object"
    /\ Missing(input[FactorOrder[i]])
    /\ \A j \in 1..(i - 1) : input[FactorOrder[j]].k = "object"

\* the error thrown is a CalculationError whose message is `e`'s after the prefix
WrappedAs(e) ==
    /\ outcome.kind = "throw"
    /\ outcome.error.name = "CalculationError"
    /\ outcome.error.message.prefix = "Failed to calculate health score: "
    /\ outcome.error.message.field = e.message.field
    /\ outcome.error.message.text = e.message.text
    /\ outcome.error.message.args = e.message.args

\* C15: an InvalidInputError of a factor scorer or of a presence check leaves
\* calculateHealthScore as it is, name and message; an Error of another kind thrown
\* on the way leaves it as a CalculationError whose message ends with that error's
\* message; nothing but these two kinds leaves it.
C15_ErrorPropagation ==
    (Called /\ op = "calculateHealthScore") =>
        /\ outcome.kind = "throw" =>
              outcome.error.name \in {"InvalidInputError", "CalculationError"}
        /\ \A i \in 1..4 :
              /\ FirstMissing(i) =>
                    /\ ThrewInvalidInput
                    /\ outcome.error = validateRequired(input[FactorOrder[i]],
                                           [payment |-> "customerData.payment",
                                            engagement |-> "customerData.engagement",
                                            contract |-> "customerData.contract",
                                            support |-> "customerData.support"][FactorOrder[i]])
              /\ (FirstToThrow(i) /\ ScorerOutcome(i).error.name = "InvalidInputError") =>
                    outcome = ScorerOutcome(i)
              /\ (FirstToThrow(i) /\ ScorerOutcome(i).error.name = "Error") =>
                    WrappedAs(ScorerOutcome(i).error)
              /\ (FirstToThrow(i) /\ ScorerOutcome(i).error.name = "thrown value") =>
                    outcome.kind = "throw" /\ outcome.error.name = "CalculationError"

\* a customer whose payment record throws an Error when a field is read: the call
\* ends with a CalculationError carrying that error's message
C15_Witness ==
    /\ Called /\ op = "calculateHealthScore" /\ FirstToThrow(1)
    /\ ScorerOutcome(1).error.name = "Error"
    /\ WrappedAs(ScorerOutcome(1).error)
    /\ outcome.error.message.text = "getter failed"

-----------------------------------------------------------------------------
(* All or nothing.                                                          *)

\* the i-th sub-record of the argument is valid
ValidFactor(i) ==
    CASE i = 1 -> ValidPayment(input.payment)
      [] i = 2 -> ValidEngagement(input.engagement)
      [] i = 3 -> ValidContract(input.contract)
      [] i = 4 -> ValidSupport(input.support)

\* a result with nothing left out, every factor score being its scorer's own
CompleteResult(v) ==
    /\ ScoreInRange(v.overallScore)
    /\ v.riskLevel \in {"critical", "warning", "healthy"}
    /\ v.calculatedAt \in Nat
    /\ \A i \in 1..4 :
          /\ ScorerOutcome(i).kind = "return"
          /\ v.breakdown[FactorOrder[i]].score = ScorerOutcome(i).value
          /\ ScoreInRange(v.breakdown[FactorOrder[i]].score)
          /\ v.breakdown[FactorOrder[i]].weight.k = "finite"
          /\ v.breakdown[FactorOrder[i]].weightedScore.k = "finite"

\* C16: a call of calculateHealthScore returns a complete result or throws; with
\* any one sub-record invalid it throws, the other three being valid or not; no
\* result is partial and no factor score stands in for one that failed.
C16_AllOrNothing ==
    (Called /\ op = "calculateHealthScore") =>
        /\ outcome.kind \in {"return", "throw"}
        /\ ReturnedValue => AllPresent /\ CompleteResult(outcome.value)
        /\ outcome.kind = "throw" => outcome.value = undefined
        /\ (input.k = "object" /\ \E i \in 1..4 : ~ValidFactor(i)) => outcome.kind = "throw"

-----------------------------------------------------------------------------
(* The documented scenarios.                                                *)

\* C17: for the customer of the fixture's record '1' (payment 5, 1, 0, 0.95;
\* engagement 48, 16, 2, 12; contract 240, 75000, true, true; support 6, 4.8, 0, 1)
\* calculateHealthScore returns an overallScore from 85 to 89 and riskLevel 'healthy'.
C17_HealthyScenario ==
    (Called /\ op = "calculateHealthScore" /\ input = mockCustomerHealthData[1]) =>
        /\ ReturnedValue
        /\ Between(outcome.value.overallScore, 85, 89)
        /\ outcome.value.riskLevel = "healthy"

\* C18: for the customer of the fixture's record '3' (payment 55, 28, 8500, 0.35;
\* engagement 4, 2, 18, 1; contract 15, 12000, false, false; support 68, 1.8, 7, 12)
\* calculateHealthScore returns an overallScore from 10 to 19 and riskLevel 'critical'.
C18_CriticalScenario ==
    (Called /\ op = "calculateHealthScore" /\ input = mockCustomerHealthData[3]) =>
        /\ ReturnedValue
        /\ Between(outcome.value.overallScore, 10, 19)
        /\ outcome.value.riskLevel = "critical"

\* the record '3' scored: 18 overall
C18_Witness ==
    /\ Called /\ op = "calculateHealthScore" /\ input = mockCustomerHealthData[3]
    /\ ReturnedValue
    /\ outcome.value.overallScore = Num(18)
    /\ input.payment.daysSinceLastPayment = Num(55)
    /\ input.support.satisfactionScore = Lit(18, 10)

-----------------------------------------------------------------------------
(* The normalizers.                                                         *)

Normalizers == {"normalizeToScore", "inverseNormalizeToScore"}

\* C19: with min equal to max normalizeToScore and inverseNormalizeToScore return
\* 50 for every value: nothing is divided by zero and nothing is thrown.
C19_DegenerateRangeNeutral ==
    (Called /\ op \in Normalizers /\ StrictEq(input.min, input.max)) =>
        outcome = Return(Num(50))

\* normalizeToScore(7, 5, 5), a value off a range of no width, gave 50
C19_Witness ==
    /\ Called /\ op = "normalizeToScore"
    /\ input.min = Num(5) /\ input.max = Num(5) /\ input.value = Num(7)
    /\ outcome = Return(Num(50))

\* the argument is a finite value and a range of some width
ProperRange == input.value.k = "finite" /\ FLess(input.min, input.max)

\* the finite values the normalizers are given over the range of the argument
ValuesOfRange ==
    { a.value : a \in { b \in NormalizerInputs :
                           b.min = input.min /\ b.max = input.max /\ b.value.k = "finite" } }

\* both normalizers' results for the argument, added up
MirrorSum ==
    FAdd(normalizeToScore(input.value, input.min, input.max),
         inverseNormalizeToScore(input.value, input.min, input.max))

\* 2^-45, two units in the last place of the numbers next below 100
MirrorTolerance == FMul(Lit(1, 2^22), Lit(1, 2^23))

\* the results lie in [0,100], normalizeToScore rising from 0 at min to 100 at max
\* and inverseNormalizeToScore falling from 100 at min to 0 at max
NormalizersBoundedMonotone ==
    /\ Between(outcome.value, 0, 100)
    /\ op = "normalizeToScore" =>
          /\ FEq(input.value, input.min) => FEq(outcome.value, Zero)
          /\ FEq(input.value, input.max) => FEq(outcome.value, Num(100))
          /\ \A w \in ValuesOfRange :
                FLeq(w, input.value) =>
                    FLeq(normalizeToScore(w, input.min, input.max), outcome.value)
    /\ op = "inverseNormalizeToScore" =>
          /\ FEq(input.value, input.min) => FEq(outcome.value, Num(100))
          /\ FEq(input.value, input.max) => FEq(outcome.value, Zero)
          /\ \A w \in ValuesOfRange :
                FLeq(w, input.value) =>
                    FLeq(outcome.value, inverseNormalizeToScore(w, input.min, input.max))

\* C20 as amended: for min < max and a finite value both normalizers return a
\* result in [0,100], normalizeToScore non-decreasing from 0 at min to 100 at max,
\* inverseNormalizeToScore non-increasing from 100 at min to 0 at max, and for
\* min <= value <= max the two results add up to 100 to within 2^-45.
C20_NormalizersMirrorNearly ==
    (Called /\ op \in Normalizers /\ ProperRange) =>
        /\ NormalizersBoundedMonotone
        /\ (FLeq(input.min, input.value) /\ FLeq(input.value, input.max)) =>
              /\ FLeq(FSub(Num(100), MirrorTolerance), MirrorSum)
              /\ FLeq(MirrorSum, FAdd(Num(100), MirrorTolerance))

\* normalizeToScore(20, 0, 60): a third of the range, where the two results add up
\* to less than 100
C20_Witness ==
    /\ Called /\ op = "normalizeToScore" /\ ProperRange
    /\ input.min = Zero /\ input.max = Num(60) /\ input.value = Num(20)
    /\ FLess(MirrorSum, Num(100))
    /\ FLess(Num(33), outcome.value) /\ FLess(outcome.value, Num(34))

\* C20 as stated: as above, the two results adding up to 100 exactly.
C20_NormalizersMirrorExactly ==
    (Called /\ op \in Normalizers /\ ProperRange) =>
        /\ NormalizersBoundedMonotone
        /\ (FLeq(input.min, input.value) /\ FLeq(input.value, input.max)) =>
              FEq(MirrorSum, Num(100))

-----------------------------------------------------------------------------
(* Optional fields.                                                         *)

\* the optional field of each scorer that has one
OptionalField ==
    [calculatePaymentScore    |-> "paymentConsistency",
     calculateEngagementScore |-> "activeUserCount",
     calculateContractScore   |-> "autoRenewalEnabled"]

\* the argument is a record whose required fields are valid
RequiredFieldsValid ==
    /\ input.k = "object"
    /\ CASE op = "calculatePaymentScore" ->
              ValidPayment([input EXCEPT !.paymentConsistency = undefined])
         [] op = "calculateEngagementScore" ->
              ValidEngagement([input EXCEPT !.activeUserCount = undefined])
         [] op = "calculateContractScore" ->
              ValidContract([input EXCEPT !.autoRenewalEnabled = undefined])

\* the score of the argument by the documented formula with no bonus for the
\* optional field
ScoreWithoutBonus ==
    CASE op = "calculatePaymentScore" -> MathRound(clampScore(PaymentFormula(input)))
      [] op = "calculateEngagementScore" -> MathRound(clampScore(EngagementFormula(input)))
      [] op = "calculateContractScore" ->
           MathRound(clampScore(
               ContractFormula([input EXCEPT !.autoRenewalEnabled = undefined])))

-----------------------------------------------------------------------------
(* Operating ceilings.                                                      *)

\* the ceiling of each input that has one, by scorer
Ceilings ==
    [calculatePaymentScore |->
         [daysSinceLastPayment |-> 60, averagePaymentDelay |-> 30, overdueAmount |-> 10000],
     calculateEngagementScore |->
         [loginsPerMonth |-> 60, featureUsageCount |-> 20, supportTicketsOpened |-> 30,
          activeUserCount |-> 10],
     calculateContractScore |-> [daysUntilRenewal |-> 360, contractValue |-> 100000],
     calculateSupportScore |->
         [averageResolutionTimeHours |-> 72, escalationCount |-> 10, openTicketCount |-> 20]]

\* field f of r is a number at or beyond its ceiling
AtOrBeyondCeiling(r, f) ==
    f \in DOMAIN Ceilings[op] /\ r[f].k = "finite" /\ FLeq(Num(Ceilings[op][f]), r[f])

\* record r with every input at or beyond its ceiling brought down to the ceiling
Clipped(r) ==
    [f \in DOMAIN r |-> IF AtOrBeyondCeiling(r, f) THEN Num(Ceilings[op][f]) ELSE r[f]]

ScoreOf(r) ==
    CASE op = "calculatePaymentScore" -> calculatePaymentScore(r)
      [] op = "calculateEngagementScore" -> calculateEngagementScore(r)
      [] op = "calculateContractScore" -> calculateContractScore(r)
      [] op = "calculateSupportScore" -> calculateSupportScore(r)

ValidArgument ==
    CASE op = "calculatePaymentScore" -> ValidPayment(input)
      [] op = "calculateEngagementScore" -> ValidEngagement(input)
      [] op = "calculateContractScore" -> ValidContract(input)
      [] op = "calculateSupportScore" -> ValidSupport(input)
      [] OTHER -> FALSE

\* C22: for a valid record, an input at or beyond its ceiling (60 days since
\* payment, 30 days of delay, 10000 overdue, 60 logins, 20 features, 30 tickets, 10
\* users, 360 days until renewal, a contract value of 100000, 72 hours, 10
\* escalations, 20 open tickets) is scored as the ceiling is, so that any larger
\* value gives the same factor score; and no value above the max of its range is
\* passed to a normalizer.
C22_CeilingsClip ==
    (Called /\ op \in FactorScorers /\ ValidArgument) =>
        /\ ReturnedValue
        /\ outcome = ScoreOf(Clipped(input))
        /\ \A i \in DOMAIN NormalizerArguments(op, input) :
              /\ NormalizerArguments(op, input)[i][1].k = "finite"
              /\ FLeq(NormalizerArguments(op, input)[i][1], NormalizerArguments(op, input)[i][3])

\* engagement metrics with 30000 tickets and 60.5 logins a month, scored as 30
\* tickets and 60 logins are, strictly between 0 and 100
C22_Witness ==
    /\ Called /\ op = "calculateEngagementScore" /\ ValidArgument
    /\ input.supportTicketsOpened = Num(30000)
    /\ input.loginsPerMonth = Lit(121, 2)
    /\ input.featureUsageCount = Num(16)
    /\ Clipped(input).supportTicketsOpened = Num(30)
    /\ outcome = ScoreOf(Clipped(input))
    /\ FLess(Zero, outcome.value) /\ FLess(outcome.value, Num(100))

-----------------------------------------------------------------------------
(* Support tickets and the engagement score.                                *)

\* ticket counts to compare with: those of the arguments, and both sides of the
\* breakpoints 5, 15 and 30
TicketCounts ==
    { Lit(30 * c, Grid) : c \in 0..(Grid + 1) }
    \cup { Num(n) : n \in {0, 5, 6, 15, 16, 29, 30, 31} }

\* C23: of two valid engagement records that differ only in supportTicketsOpened
\* the one with more tickets never has the higher engagement score, across the
\* breakpoints 5, 15 and 30 as well.
C23_TicketsNeverRaiseScore ==
    (Called /\ op = "calculateEngagementScore" /\ ValidEngagement(input)) =>
        \A fewer \in TicketCounts :
            FLeq(fewer, input.supportTicketsOpened) =>
                FLeq(outcome.value,
                     calculateEngagementScore(
                         [input EXCEPT !.supportTicketsOpened = fewer]).value)

-----------------------------------------------------------------------------
(* The boolean fields of the contract.                                      *)

\* a value that is there and is not a boolean
PresentNonBoolean(v) == ~Missing(v) /\ ~IsBoolean(v)

\* C24: calculateContractScore throws an InvalidInputError when hasRecentUpgrades
\* or autoRenewalEnabled holds a present value that is not a boolean, a string or a
\* number for instance, instead of counting a bonus for it.
C24_BooleansChecked ==
    (Called /\ op = "calculateContractScore" /\ input.k = "object") =>
        /\ PresentNonBoolean(input.autoRenewalEnabled) => ThrewInvalidInput
        /\ PresentNonBoolean(input.hasRecentUpgrades) => ThrewInvalidInput

-----------------------------------------------------------------------------
(* The customerId.                                                          *)

\* the two arguments are customers that differ in nothing, or in customerId only
SameButCustomerId(a, b) ==
    /\ a.k = "object" /\ b.k = "object"
    /\ [a EXCEPT !.customerId = undefined] = [b EXCEPT !.customerId = undefined]

\* C25: the customerId of the result is the customerId of the argument, and
\* undefined when the argument has none; it takes no part in validation or scoring:
\* two arguments that differ only in customerId give the same overallScore,
\* riskLevel and breakdown, or the same error.
C25_CustomerIdPassedThrough ==
    (Called /\ input.k = "object") =>
        /\ ReturnedValue => outcome.value.customerId = input.customerId
        /\ SameButTime(outcome, calculateHealthScore([input EXCEPT !.customerId = undefined]))
        /\ SameButCustomerId(input, first.input) => SameButTime(outcome, first.outcome)

\* customer '5' scored with a number for customerId after it was scored with its
\* own customerId: the number is in the result and the scores are those of the first call
C25_Witness ==
    /\ Called /\ ReturnedValue /\ first.outcome.kind = "return"
    /\ input.customerId = Num(7) /\ first.input.customerId = Str(5)
    /\ SameButCustomerId(input, first.input)
    /\ outcome.value.customerId = Num(7) /\ first.outcome.value.customerId = Str(5)
    /\ outcome.value.overallScore = Num(75)
    /\ outcome.value.breakdown = first.outcome.value.breakdown

-----------------------------------------------------------------------------
(* Calls share nothing.                                                     *)

-----------------------------------------------------------------------------
(* The argument is left as it was.                                          *)

-----------------------------------------------------------------------------
(* The order of the presence checks and of the factor scorers.              *)

\* the name the presence check of the i-th sub-record gives it
CheckedName(i) ==
    <<"customerData.payment", "customerData.engagement", "customerData.contract",
      "customerData.support">>[i]

\* a sub-record before the i-th is there and its scorer rejects it
EarlierRejected(i) ==
    \E j \in 1..(i - 1) :
        input[FactorOrder[j]].k = "object" /\ ScorerOutcome(j).kind = "throw"

\* the error that left the call is the error `e` as a scorer threw it, or wrapped
ErrorOf(e) ==
    IF e.name = "InvalidInputError" THEN outcome = Throw(e)
    ELSE outcome.kind = "throw" /\ outcome.error.name = "CalculationError"

-----------------------------------------------------------------------------
(* The widget.                                                              *)

\* the effect has run for the customerData the widget was last given
EffectRan == widget.mounted /\ ~widget.effectDue

\* C29: once the effect has run for the current customerData, whatever changes of
\* customerData came before, the widget renders the loading skeleton, isCalculating
\* being true, for as long as a calculation the effect started is pending, and a
\* score it renders was calculated for the current customerData.
C29_LoadingWhilePending ==
    EffectRan =>
        /\ widget.pending # << >> => widget.isCalculating /\ View(widget) = "loading"
        /\ View(widget) = "score" =>
              widget.healthResult.customerId = widget.customerData.customerId

\* calculateHealthScore throws for the customerData of the widget
FailsForCurrent ==
    /\ Truthy(widget.customerData)
    /\ calculateHealthScore(widget.customerData).kind = "throw"

\* C30: with a customerData for which calculateHealthScore fails, once the
\* calculation is over the widget shows the error state, with a message, and goes
\* on showing it, never the empty state and never a score, after any number of
\* presses of Retry, until customerData changes.
C30_FailureStaysShown ==
    (EffectRan /\ widget.pending = << >> /\ FailsForCurrent) =>
        /\ View(widget) = "error"
        /\ widget.calculationError.text # ""

====
